---- MODULE Spec2Model ----
(***************************************************************************)
(* SkyDrive backend: the content-addressed blob store (file_store rows and *)
(* the files on the storage volumes), the chunked upload sessions          *)
(* (file_chunk rows and the chunk files in the upload directory) and the   *)
(* per-user namespace (file_meta rows), with the request handlers of       *)
(* app/api/api_v1/endpoints/files.py and the CRUD layer under app/crud.    *)
(***************************************************************************)
EXTENDS Integers, Sequences, FiniteSets, TLC

(***************************************************************************)
(* Bounds of the model.                                                    *)
(***************************************************************************)
MaxId == 3          \* file_meta ids handed out: 1..MaxId
MaxIngestId == 2    \* ids handed out where the traffic is uploads: 1..MaxIngestId
MaxChunks == 2      \* largest total_chunks of a session
QuotaTotal == 3     \* quota_total of every user, in bytes
MaxNameLen == 8     \* file names are followed up to this length
MaxTime == 31       \* the clock stops here
TickDays == 31      \* days the clock advances in one step
MaxDebt == 1        \* quota_used is followed down to -MaxDebt
MaxPathId == 6      \* file_meta ids handed out while paths are resolved by two requests
MaxCopyId == 5      \* file_meta ids handed out where entries are copied
MaxFree == 2        \* most free bytes a volume reports

(***************************************************************************)
(* Program constants.                                                      *)
(***************************************************************************)
Root == 0           \* parent_id of a top-level entry
NoHash == -1        \* file_hash IS NULL
NoTime == -1        \* deleted_at IS NULL
NoVolume == 0       \* best_path is None
TrashDays == 30     \* clean_expired_trash(days=30)

Users == {1, 2}         \* sys_user ids
Volumes == <<1, 2>>     \* settings.STORAGE_PATHS, in order; 1 is UPLOAD_DIR
Ids == 1..MaxId

(***************************************************************************)
(* Bytes and hashing.  A content is a sequence of bytes; hashlib.md5 is    *)
(* modelled as an injective digest of the byte sequence (positional        *)
(* base-3 value of bytes 1 and 2), so equal digests mean equal contents.   *)
(***************************************************************************)
Bytes == {1, 2}

RECURSIVE Md5(_)
Md5(c) == IF c = <<>> THEN 0 ELSE Md5(SubSeq(c, 1, Len(c) - 1)) * 3 + c[Len(c)]

Contents == {<<>>} \cup {<<a>> : a \in Bytes} \cup {<<a, b>> : a \in Bytes, b \in Bytes}
Hashes == {Md5(c) : c \in Contents}

(***************************************************************************)
(* File names are sequences of one-character strings.                      *)
(***************************************************************************)
Digit(d) == <<"0", "1", "2", "3", "4", "5", "6", "7", "8", "9">>[d + 1]

RECURSIVE Str(_)
Str(n) == IF n < 10 THEN <<Digit(n)>> ELSE Str(n \div 10) \o <<Digit(n % 10)>>

LastDot(s) == IF \E i \in 1..Len(s) : s[i] = "."
              THEN CHOOSE i \in 1..Len(s) : s[i] = "." /\ \A j \in (i + 1)..Len(s) : s[j] # "."
              ELSE 0

\* crud_file.py:115-120: rsplit(".", 1) unless the name starts with a dot
CrudSplit(s) ==
    IF LastDot(s) > 0 /\ s[1] # "."
    THEN <<SubSeq(s, 1, LastDot(s) - 1), SubSeq(s, LastDot(s), Len(s))>>
    ELSE <<s, <<>>>>

\* os.path.splitext: the last dot starts the extension unless only dots precede it
OsSplitext(s) ==
    IF LastDot(s) > 0 /\ \E j \in 1..(LastDot(s) - 1) : s[j] # "."
    THEN <<SubSeq(s, 1, LastDot(s) - 1), SubSeq(s, LastDot(s), Len(s))>>
    ELSE <<s, <<>>>>

\* f"{name} ({counter}){ext}"
Numbered(stem, n, ext) == stem \o <<" ", "(">> \o Str(n) \o <<")">> \o ext

\* file_name LIKE f"{stem}%{ext}"
Like(name, stem, ext) ==
    /\ Len(name) >= Len(stem) + Len(ext)
    /\ SubSeq(name, 1, Len(stem)) = stem
    /\ SubSeq(name, Len(name) - Len(ext) + 1, Len(name)) = ext

Min(S) == CHOOSE x \in S : \A y \in S : x <= y

\* the elements of a set of numbers in ascending order
RECURSIVE Sorted(_)
Sorted(S) == IF S = {} THEN <<>> ELSE <<Min(S)>> \o Sorted(S \ {Min(S)})

VARIABLES
    file_meta,      \* table file_meta: id -> row
    next_id,        \* the next auto-increment id of file_meta
    file_store,     \* table file_store: file_hash -> row
    disk,           \* files under their permanent names: <<volume, hash>> -> bytes
    file_chunk,     \* table file_chunk: <<upload_id, chunk_index>> -> row
    chunk_tmp,      \* chunk files in UPLOAD_DIR: <<upload_id, chunk_index>> -> bytes
    quota_used,     \* sys_user.quota_used: user -> bytes
    now,            \* datetime.utcnow(), in days
    last,           \* the request that completed last and its outcome
    pc,             \* worker -> position in the handler it is running
    loc             \* worker -> the handler's local variables

vars == <<file_meta, next_id, file_store, disk, file_chunk, chunk_tmp, quota_used,
          now, last, pc, loc>>

(***************************************************************************)
(* Rows.                                                                   *)
(***************************************************************************)
\* models/file.py FileMeta
MetaRow(user_id, parent_id, file_name, is_folder, file_hash) ==
    [user_id |-> user_id, parent_id |-> parent_id, file_name |-> file_name,
     is_folder |-> is_folder, file_hash |-> file_hash,
     is_deleted |-> FALSE, deleted_at |-> NoTime]

\* models/file.py FileStore
StoreRow(real_path, file_size, ref_count) ==
    [real_path |-> real_path, file_size |-> file_size, ref_count |-> ref_count]

\* models/file.py FileChunk
ChunkRow(is_uploaded, chunk_size, has_path) ==
    [is_uploaded |-> is_uploaded, chunk_size |-> chunk_size, has_path |-> has_path]

\* f with key k bound to v (insert or overwrite), and f without the keys in K
Put(f, k, v) == [x \in (DOMAIN f) \cup {k} |-> IF x = k THEN v ELSE f[x]]
Drop(f, K) == [x \in (DOMAIN f) \ K |-> f[x]]
Empty == [x \in {} |-> 0]

(***************************************************************************)
(* The database as the CRUD layer threads it through a request:            *)
(* fm = file_meta, nid = next id, fs = file_store, dk = disk.  ok turns    *)
(* FALSE when a call does not return: unbounded recursion or an endless    *)
(* loop over a cyclic parent chain, or ids beyond MaxId.                   *)
(***************************************************************************)
Db == [fm |-> file_meta, nid |-> next_id, fs |-> file_store, dk |-> disk, ok |-> TRUE,
       lim |-> MaxId]     \* lim: the last id a copy may take

\* a lookup that never finds the name
get_by_name_and_parent_blind(fm, name, parent_id, user_id) == {}

\* crud_file.py:39-47: the active entries of the user with that name under parent_id
get_by_name_and_parent(fm, name, parent_id, user_id) ==
    {i \in DOMAIN fm : /\ fm[i].user_id = user_id
                       /\ fm[i].parent_id = parent_id
                       /\ fm[i].file_name = name
                       /\ ~fm[i].is_deleted}

\* crud_file.py:114-139
get_unique_filename_crud(fm, user_id, parent_id, file_name) ==
    LET name_without_ext == CrudSplit(file_name)[1]
        ext == CrudSplit(file_name)[2]
        existing_names ==
            {fm[i].file_name : i \in {j \in DOMAIN fm :
                /\ fm[j].user_id = user_id
                /\ fm[j].parent_id = parent_id
                /\ Like(fm[j].file_name, name_without_ext, ext)
                /\ ~fm[j].is_deleted}}
        counter == CHOOSE n \in 1..(Cardinality(existing_names) + 1) :
                     /\ Numbered(name_without_ext, n, ext) \notin existing_names
                     /\ \A m \in 1..(n - 1) : Numbered(name_without_ext, m, ext) \in existing_names
    IN IF file_name \notin existing_names
       THEN file_name
       ELSE Numbered(name_without_ext, counter, ext)

\* files.py:66-80
get_unique_filename(fm, filename, parent_id, user_id) ==
    LET name == OsSplitext(filename)[1]
        ext == OsSplitext(filename)[2]
        taken(nm) == get_by_name_and_parent(fm, nm, parent_id, user_id) # {}
        counter == CHOOSE n \in 1..(Cardinality(DOMAIN fm) + 1) :
                     /\ ~taken(Numbered(name, n, ext))
                     /\ \A m \in 1..(n - 1) : taken(Numbered(name, m, ext))
    IN IF ~taken(filename) THEN filename ELSE Numbered(name, counter, ext)

\* crud_file.py:141-160: the new row gets id s.nid
create_with_user(s, file_name, is_folder, parent_id, file_hash, user_id) ==
    IF s.nid > MaxId THEN [s EXCEPT !.ok = FALSE]
    ELSE [s EXCEPT
            !.fm = Put(s.fm, s.nid,
                       MetaRow(user_id, parent_id,
                               get_unique_filename_crud(s.fm, user_id, parent_id, file_name),
                               is_folder, file_hash)),
            !.nid = s.nid + 1]

\* an increment that is lost: the row stays as it was
increment_ref_count_lost(fs, file_hash) == fs

\* crud_file.py:189-197: UPDATE file_store SET ref_count = ref_count + 1 WHERE file_hash = :h
increment_ref_count(fs, file_hash) ==
    IF file_hash \in DOMAIN fs
    THEN [fs EXCEPT ![file_hash].ref_count = @ + 1]
    ELSE fs

\* crud_file.py:199-207
decrement_ref_count(fs, file_hash) ==
    IF file_hash \in DOMAIN fs
    THEN [fs EXCEPT ![file_hash].ref_count = @ - 1]
    ELSE fs

\* crud_file.py:165-187, one caller at a time: the insert cannot conflict
create_file_store(fs, file_hash, real_path, file_size) ==
    IF file_hash \in DOMAIN fs
    THEN increment_ref_count(fs, file_hash)
    ELSE Put(fs, file_hash, StoreRow(real_path, file_size, 1))

\* models/file.py:30-36: FileMeta.file_size
file_size(fm, fs, id) ==
    IF fm[id].is_folder THEN 0
    ELSE IF fm[id].file_hash \in DOMAIN fs THEN fs[fm[id].file_hash].file_size
    ELSE 0

(***************************************************************************)
(* Soft delete, restore, permanent delete.                                 *)
(***************************************************************************)
RECURSIVE remove(_, _, _, _, _)
RECURSIVE remove_all(_, _, _, _, _)

\* crud_file.py:209-229.  stack: the ids whose call is still open
remove(s, id, user_id, t, stack) ==
    IF ~s.ok THEN s
    ELSE IF id \notin DOMAIN s.fm \/ s.fm[id].user_id # user_id THEN s
    ELSE IF id \in stack THEN [s EXCEPT !.ok = FALSE]
    ELSE LET children == {c \in DOMAIN s.fm : s.fm[c].parent_id = id /\ s.fm[c].user_id = user_id}
             s1 == IF s.fm[id].is_folder
                   THEN remove_all(s, Sorted(children), user_id, t, stack \cup {id})
                   ELSE s
         IN IF ~s1.ok THEN s1
            ELSE [s1 EXCEPT !.fm[id].is_deleted = TRUE, !.fm[id].deleted_at = t]

remove_all(s, ids, user_id, t, stack) ==
    IF ids = <<>> THEN s
    ELSE remove_all(remove(s, Head(ids), user_id, t, stack), Tail(ids), user_id, t, stack)

RECURSIVE restore_downwards(_, _, _, _)

\* crud_file.py:277-295.  The session does not autoflush (db/session.py:14), so
\* every query of the recursion reads the rows as they were before the restore.
\* Returns the ids un-deleted below id.
restore_downwards(fm, id, user_id, stack) ==
    IF ~fm[id].is_folder THEN [ids |-> {}, ok |-> TRUE]
    ELSE IF id \in stack THEN [ids |-> {}, ok |-> FALSE]
    ELSE LET children == {c \in DOMAIN fm : /\ fm[c].parent_id = id
                                            /\ fm[c].user_id = user_id
                                            /\ fm[c].is_deleted}
             sub == [c \in children |-> restore_downwards(fm, c, user_id, stack \cup {id})]
         IN [ids |-> children \cup UNION {sub[c].ids : c \in children},
             ok |-> \A c \in children : sub[c].ok]

RECURSIVE restore_upwards(_, _, _, _)

\* crud_file.py:255-275: the parents found walking up from id
restore_upwards(fm, id, user_id, seen) ==
    LET p == fm[id].parent_id IN
    IF p = Root THEN [ids |-> {}, ok |-> TRUE]
    ELSE IF p \notin DOMAIN fm \/ fm[p].user_id # user_id THEN [ids |-> {}, ok |-> TRUE]
    ELSE IF p \in seen THEN [ids |-> {}, ok |-> FALSE]
    ELSE LET up == restore_upwards(fm, p, user_id, seen \cup {p})
         IN [ids |-> {p} \cup up.ids, ok |-> up.ok]

\* crud_file.py:231-253
restore(s, id, user_id) ==
    IF id \notin DOMAIN s.fm \/ s.fm[id].user_id # user_id THEN s
    ELSE LET down == restore_downwards(s.fm, id, user_id, {})
             up == restore_upwards(s.fm, id, user_id, {})
             ids == {id} \cup down.ids \cup up.ids
         IN IF ~(down.ok /\ up.ok) THEN [s EXCEPT !.ok = FALSE]
            ELSE [s EXCEPT !.fm = [i \in DOMAIN s.fm |->
                                     IF i \in ids
                                     THEN [s.fm[i] EXCEPT !.is_deleted = FALSE, !.deleted_at = NoTime]
                                     ELSE s.fm[i]]]

RECURSIVE permanent_remove(_, _, _, _)
RECURSIVE permanent_remove_all(_, _, _, _)

\* crud_file.py:297-319
permanent_remove(s, id, user_id, stack) ==
    IF ~s.ok THEN s
    ELSE IF id \notin DOMAIN s.fm \/ s.fm[id].user_id # user_id THEN s
    ELSE IF id \in stack THEN [s EXCEPT !.ok = FALSE]
    ELSE LET obj == s.fm[id]
             children == {c \in DOMAIN s.fm : s.fm[c].parent_id = id /\ s.fm[c].user_id = user_id}
             fs1 == decrement_ref_count(s.fs, obj.file_hash)
             gone == fs1[obj.file_hash].ref_count <= 0
             s1 == IF obj.is_folder
                   THEN permanent_remove_all(s, Sorted(children), user_id, stack \cup {id})
                   ELSE IF obj.file_hash \in DOMAIN s.fs
                   THEN IF gone
                        THEN [s EXCEPT !.fs = Drop(fs1, {obj.file_hash}),
                                       !.dk = Drop(s.dk, {<<fs1[obj.file_hash].real_path, obj.file_hash>>})]
                        ELSE [s EXCEPT !.fs = fs1]
                   ELSE s
         IN IF ~s1.ok THEN s1
            ELSE [s1 EXCEPT !.fm = Drop(s1.fm, {id})]

permanent_remove_all(s, ids, user_id, stack) ==
    IF ids = <<>> THEN s
    ELSE permanent_remove_all(permanent_remove(s, Head(ids), user_id, stack),
                              Tail(ids), user_id, stack)

\* a purge that removes nothing
clean_expired_trash_idle(s, user_id, t) == s

\* crud_file.py:100-112: the expired rows are fetched once, then removed one by one
clean_expired_trash(s, user_id, t) ==
    LET expire_date == t - TrashDays
        expired_files == {i \in DOMAIN s.fm : /\ s.fm[i].user_id = user_id
                                               /\ s.fm[i].is_deleted
                                               /\ s.fm[i].deleted_at # NoTime
                                               /\ s.fm[i].deleted_at < expire_date}
    IN permanent_remove_all(s, Sorted(expired_files), user_id, {})

(***************************************************************************)
(* Ancestors, path resolution, copy, move, trash listing.                  *)
(***************************************************************************)
RECURSIVE get_ancestors(_, _, _, _)

\* crud_file.py:321-332: the chain root -> folder_id; ok is FALSE when the walk
\* comes back to an id it has passed (the while loop never ends)
get_ancestors(fm, folder_id, user_id, seen) ==
    IF folder_id = Root THEN [list |-> <<>>, ok |-> TRUE]
    ELSE IF folder_id \notin DOMAIN fm \/ fm[folder_id].user_id # user_id
    THEN [list |-> <<>>, ok |-> TRUE]
    ELSE IF folder_id \in seen THEN [list |-> <<>>, ok |-> FALSE]
    ELSE LET up == get_ancestors(fm, fm[folder_id].parent_id, user_id, seen \cup {folder_id})
         IN [list |-> up.list \o <<folder_id>>, ok |-> up.ok]

RECURSIVE get_or_create_path(_, _, _, _)

\* crud_file.py:334-403 run by one request at a time (under folder_creation_lock):
\* folder_parts are the segments before the file name.  Returns the state and,
\* in field pid, the folder the file goes into.
get_or_create_path(s, user_id, parent_id, folder_parts) ==
    IF folder_parts = <<>> \/ ~s.ok THEN [s |-> s, pid |-> parent_id]
    ELSE IF Head(folder_parts) = <<>>
    THEN get_or_create_path(s, user_id, parent_id, Tail(folder_parts))
    ELSE LET folder_name == Head(folder_parts)
             same(fm) == {i \in DOMAIN fm : /\ fm[i].user_id = user_id
                                            /\ fm[i].parent_id = parent_id
                                            /\ fm[i].file_name = folder_name
                                            /\ fm[i].is_folder
                                            /\ ~fm[i].is_deleted}
             new_id == s.nid
             fm1 == Put(s.fm, new_id, MetaRow(user_id, parent_id, folder_name, TRUE, NoHash))
             existing_folders == Sorted(same(fm1))
             dups == {existing_folders[k] : k \in 2..Len(existing_folders)}
             empty_dups == {d \in dups : ~\E c \in DOMAIN fm1 : fm1[c].parent_id = d}
         IN IF same(s.fm) # {}
            THEN get_or_create_path(s, user_id, Min(same(s.fm)), Tail(folder_parts))
            ELSE IF s.nid > MaxId
            THEN [s |-> [s EXCEPT !.ok = FALSE], pid |-> parent_id]
            ELSE IF Len(existing_folders) > 1
            THEN get_or_create_path([s EXCEPT !.fm = Drop(fm1, empty_dups), !.nid = new_id + 1],
                                    user_id, existing_folders[1], Tail(folder_parts))
            ELSE get_or_create_path([s EXCEPT !.fm = fm1, !.nid = new_id + 1],
                                    user_id, new_id, Tail(folder_parts))

RECURSIVE copy(_, _, _, _)
RECURSIVE copy_all(_, _, _, _)

\* crud_file.py:405-439.  ok turns FALSE when the ids run out, which is also
\* how a copy that keeps finding its own copies among the children ends here.
copy(s, id, target_parent_id, user_id) ==
    IF ~s.ok THEN s
    ELSE IF id \notin DOMAIN s.fm \/ s.fm[id].user_id # user_id THEN s
    ELSE IF s.nid > s.lim THEN [s EXCEPT !.ok = FALSE]
    ELSE LET obj == s.fm[id]
             new_id == s.nid
             unique_name == get_unique_filename_crud(s.fm, user_id, target_parent_id, obj.file_name)
             s1 == [s EXCEPT !.fm = Put(s.fm, new_id,
                                        MetaRow(user_id, target_parent_id, unique_name,
                                                obj.is_folder, obj.file_hash)),
                             !.nid = new_id + 1]
             children == {c \in DOMAIN s1.fm : /\ s1.fm[c].parent_id = id
                                               /\ s1.fm[c].user_id = user_id
                                               /\ ~s1.fm[c].is_deleted}
         IN IF ~obj.is_folder
            THEN IF obj.file_hash # NoHash
                 THEN [s1 EXCEPT !.fs = increment_ref_count(s1.fs, obj.file_hash)]
                 ELSE s1
            ELSE copy_all(s1, Sorted(children), new_id, user_id)

copy_all(s, ids, target_parent_id, user_id) ==
    IF ids = <<>> THEN s
    ELSE copy_all(copy(s, Head(ids), target_parent_id, user_id),
                  Tail(ids), target_parent_id, user_id)

\* crud_file.py:449-455: the check that keeps a folder out of its own subtree
move_rejected(fm, id, target_parent_id, user_id) ==
    /\ fm[id].is_folder
    /\ \E k \in 1..Len(get_ancestors(fm, target_parent_id, user_id, {}).list) :
          get_ancestors(fm, target_parent_id, user_id, {}).list[k] = id

\* crud_file.py:441-467
move(fm, id, target_parent_id, user_id) ==
    IF id \notin DOMAIN fm \/ fm[id].user_id # user_id THEN fm
    ELSE IF move_rejected(fm, id, target_parent_id, user_id) THEN fm
    ELSE [fm EXCEPT ![id].parent_id = target_parent_id,
                    ![id].file_name = get_unique_filename_crud(fm, user_id, target_parent_id,
                                                               fm[id].file_name)]

\* a listing that shows every deleted entry of the user
trash_rows_every_deleted(fm, user_id, parent_id) ==
    {i \in DOMAIN fm : fm[i].user_id = user_id /\ fm[i].is_deleted}

\* crud_file.py:60-98: the rows get_trash_files returns once the expired ones are gone
trash_rows(fm, user_id, parent_id) ==
    IF parent_id # Root
    THEN {i \in DOMAIN fm : /\ fm[i].user_id = user_id
                            /\ fm[i].parent_id = parent_id
                            /\ fm[i].is_deleted}
    ELSE {i \in DOMAIN fm : /\ fm[i].user_id = user_id
                            /\ fm[i].is_deleted
                            /\ \/ fm[i].parent_id = Root
                               \/ fm[i].parent_id \notin DOMAIN fm
                               \/ ~fm[fm[i].parent_id].is_deleted}

(***************************************************************************)
(* Volume selection.  free[v] is what shutil.disk_usage(v).free returns at *)
(* the call, -1 standing for an OSError on that path.                      *)
(***************************************************************************)
RECURSIVE best_from(_, _, _, _)
best_from(free, k, best_path, max_free_space) ==
    IF k > Len(Volumes) THEN best_path
    ELSE IF free[Volumes[k]] >= 0 /\ free[Volumes[k]] > max_free_space
    THEN best_from(free, k + 1, Volumes[k], free[Volumes[k]])
    ELSE best_from(free, k + 1, best_path, max_free_space)

\* files.py:39-63; NoVolume stands for the HTTPException(500)
get_best_storage_path(free) == best_from(free, 1, NoVolume, -1)

\* what the volumes report at a call: both the same (the first is kept), the
\* second has more, none usable
FreeSpace == {<<1, 1>>, <<0, 1>>, <<-1, -1>>}

(***************************************************************************)
(* Chunk sessions (crud_chunk.py).                                         *)
(***************************************************************************)
\* files.py:352: md5 of "user-hash-parent", one id per triple
UploadId(user_id, file_hash, parent_id) == <<user_id, file_hash, parent_id>>
NoUpload == <<0, NoHash, 0>>

\* the chunk indices that have a row in the session
Slots(fc, upload_id) == {k[2] : k \in {x \in DOMAIN fc : x[1] = upload_id}}

\* a delete that removes nothing: the rows of the session stay
delete_chunks_kept(fc, upload_id) == fc

\* crud_chunk.py:76-78
delete_chunks(fc, upload_id) == Drop(fc, {k \in DOMAIN fc : k[1] = upload_id})

\* an init that never reuses what is there: the slots are always made anew
create_init_chunks_afresh(fc, upload_id, total_chunks) ==
    LET fresh == [k \in {<<upload_id, i>> : i \in 0..(total_chunks - 1)} |-> ChunkRow(FALSE, 0, FALSE)]
        cleared == Drop(fc, {k \in DOMAIN fc : k[1] = upload_id})
    IN [k \in (DOMAIN cleared) \cup (DOMAIN fresh) |->
            IF k \in DOMAIN fresh THEN fresh[k] ELSE cleared[k]]

\* crud_chunk.py:7-31
create_init_chunks(fc, upload_id, total_chunks) ==
    LET existing == Slots(fc, upload_id)
        fresh == [k \in {<<upload_id, i>> : i \in 0..(total_chunks - 1)} |-> ChunkRow(FALSE, 0, FALSE)]
        cleared == delete_chunks(fc, upload_id)
    IN IF existing # {} /\ Cardinality(existing) = total_chunks
       THEN fc
       ELSE [k \in (DOMAIN cleared) \cup (DOMAIN fresh) |->
                IF k \in DOMAIN fresh THEN fresh[k] ELSE cleared[k]]

\* crud_chunk.py:33-52: the indices it returns
uploaded_chunks(fc, ct, upload_id) ==
    {i \in Slots(fc, upload_id) : /\ fc[<<upload_id, i>>].is_uploaded
                                  /\ fc[<<upload_id, i>>].has_path
                                  /\ <<upload_id, i>> \in DOMAIN ct}

\* a query that heals nothing: every row stays as it was
get_uploaded_chunks_unhealed(fc, ct, upload_id) == fc

\* crud_chunk.py:33-52: the rows it leaves
get_uploaded_chunks(fc, ct, upload_id) ==
    [k \in DOMAIN fc |->
        IF k[1] = upload_id /\ fc[k].is_uploaded /\ ~(fc[k].has_path /\ k \in DOMAIN ct)
        THEN [fc[k] EXCEPT !.is_uploaded = FALSE]
        ELSE fc[k]]

\* a marking that keeps the size of the first upload of a slot
mark_chunk_uploaded_once(fc, upload_id, chunk_index, chunk_size) ==
    IF <<upload_id, chunk_index>> \in DOMAIN fc /\ ~fc[<<upload_id, chunk_index>>].is_uploaded
    THEN [fc EXCEPT ![<<upload_id, chunk_index>>] = ChunkRow(TRUE, chunk_size, TRUE)]
    ELSE fc

\* crud_chunk.py:54-69
mark_chunk_uploaded(fc, upload_id, chunk_index, chunk_size) ==
    IF <<upload_id, chunk_index>> \in DOMAIN fc
    THEN [fc EXCEPT ![<<upload_id, chunk_index>>] = ChunkRow(TRUE, chunk_size, TRUE)]
    ELSE fc

\* crud_chunk.py:71-74: ORDER BY chunk_index
get_all_chunks(fc, upload_id) == Sorted(Slots(fc, upload_id))

RECURSIVE merge_write(_, _, _, _, _)

\* files.py:454-462: the chunks are appended to the output one by one, each chunk
\* file removed once read; a missing chunk file ends the loop (ok = FALSE) with
\* the output as far as it got
merge_write(fc, ct, upload_id, chunks, out) ==
    IF chunks = <<>> THEN [out |-> out, ct |-> ct, ok |-> TRUE, at |-> 0]
    ELSE LET k == <<upload_id, Head(chunks)>>
         IN IF fc[k].has_path /\ k \in DOMAIN ct
            THEN merge_write(fc, Drop(ct, {k}), upload_id, Tail(chunks), out \o ct[k])
            ELSE [out |-> out, ct |-> ct, ok |-> FALSE, at |-> Head(chunks)]

\* files.py:471-473
remove_chunk_files(fc, ct, upload_id) ==
    Drop(ct, {k \in DOMAIN ct : k[1] = upload_id /\ k \in DOMAIN fc /\ fc[k].has_path})

(***************************************************************************)
(* The outcome of the last request.                                        *)
(***************************************************************************)
Outcome(op, st, user_id, node, file_hash, upload_id, ret) ==
    [op |-> op, st |-> st, user |-> user_id, node |-> node, hash |-> file_hash,
     up |-> upload_id, ret |-> ret]

\* files.py:185-204 and the like: the folder the file goes to and the name it gets;
\* conflict is the 409 on an active entry of that name
Target(user_id, file_name, parent_id, folder_parts, auto_rename) ==
    LET r == get_or_create_path(Db, user_id, parent_id, folder_parts)
        taken == get_by_name_and_parent(r.s.fm, file_name, r.pid, user_id) # {}
    IN [s |-> r.s, pid |-> r.pid,
        conflict |-> ~auto_rename /\ taken,
        final_filename |-> IF auto_rename
                           THEN get_unique_filename(r.s.fm, file_name, r.pid, user_id)
                           ELSE file_name]

\* the state a handler leaves: s = database, fc/ct = chunk rows and chunk files,
\* used = the caller's quota_used, st = how it ended, node = the entry it returns.
\* A request is followed only while the state stays within the bounds.
Commit(user_id, r) ==
    /\ r.s.ok
    /\ r.used >= -MaxDebt
    /\ \A i \in DOMAIN r.s.fm : Len(r.s.fm[i].file_name) <= MaxNameLen
    /\ file_meta' = r.s.fm
    /\ next_id' = r.s.nid
    /\ file_store' = r.s.fs
    /\ disk' = r.s.dk
    /\ file_chunk' = r.fc
    /\ chunk_tmp' = r.ct
    /\ quota_used' = [quota_used EXCEPT ![user_id] = r.used]
    /\ UNCHANGED <<now, pc, loc>>

Result(s, fc, ct, used, st, node, ret) ==
    [s |-> s, fc |-> fc, ct |-> ct, used |-> used, st |-> st, node |-> node, ret |-> ret]

\* a request that fails before it has changed anything
Refused(user_id, st) == Result(Db, file_chunk, chunk_tmp, quota_used[user_id], st, 0, {})

(***************************************************************************)
(* Ingestion handlers, each run to completion.                             *)
(***************************************************************************)
\* files.py:222-239: the blob of a whole-file upload is committed
store_upload(s, file_hash, content, free) ==
    LET v == get_best_storage_path(free)
        final_path == <<v, file_hash>>
    IN IF file_hash \in DOMAIN s.fs
       THEN [s EXCEPT !.fs = increment_ref_count(s.fs, file_hash)]
       ELSE [s EXCEPT !.dk = IF final_path \notin DOMAIN s.dk
                             THEN Put(s.dk, final_path, content)
                             ELSE s.dk,
                      !.fs = create_file_store(s.fs, file_hash, v, Len(content))]

\* files.py:169-255
upload_file_result(user_id, filename, parent_id, folder_parts, auto_rename, content, free) ==
    LET tg == Target(user_id, filename, parent_id, folder_parts, auto_rename)
        file_hash == Md5(content)
        size == Len(content)
        used == quota_used[user_id]
        s2 == store_upload(tg.s, file_hash, content, free)
        s3 == create_with_user(s2, tg.final_filename, FALSE, tg.pid, file_hash, user_id)
    IN IF tg.conflict
       THEN Result(tg.s, file_chunk, chunk_tmp, used, "NameConflict", 0, {})
       ELSE IF used + size > QuotaTotal
       THEN Result(tg.s, file_chunk, chunk_tmp, used, "QuotaExceeded", 0, {})
       ELSE IF file_hash \notin DOMAIN tg.s.fs /\ get_best_storage_path(free) = NoVolume
       THEN Result(tg.s, file_chunk, chunk_tmp, used, "NoVolumeAvailable", 0, {})
       ELSE Result(s3, file_chunk, chunk_tmp, used + size, "ok", s2.nid, {})

upload_file(user_id, filename, parent_id, folder_parts, auto_rename, content, free) ==
    Commit(user_id, upload_file_result(user_id, filename, parent_id, folder_parts,
                                       auto_rename, content, free))

\* files.py:258-319
check_fast_upload_result(user_id, file_hash, file_name, parent_id, folder_parts, auto_rename) ==
    LET tg == Target(user_id, file_name, parent_id, folder_parts, auto_rename)
        used == quota_used[user_id]
        size == tg.s.fs[file_hash].file_size
        s2 == [tg.s EXCEPT !.fs = increment_ref_count(tg.s.fs, file_hash)]
        s3 == create_with_user(s2, tg.final_filename, FALSE, tg.pid, file_hash, user_id)
    IN IF tg.conflict
       THEN Result(tg.s, file_chunk, chunk_tmp, used, "NameConflict", 0, {})
       ELSE IF file_hash \notin DOMAIN tg.s.fs
       THEN Result(tg.s, file_chunk, chunk_tmp, used, "NoRecord", 0, {})
       ELSE IF used + size > QuotaTotal
       THEN Result(tg.s, file_chunk, chunk_tmp, used, "QuotaExceeded", 0, {})
       ELSE Result(s3, file_chunk, chunk_tmp, used + size, "ok", s2.nid, {})

check_fast_upload(user_id, file_hash, file_name, parent_id, folder_parts, auto_rename) ==
    Commit(user_id, check_fast_upload_result(user_id, file_hash, file_name, parent_id,
                                             folder_parts, auto_rename))

\* files.py:322-364
init_chunk_upload_result(user_id, file_hash, declared_size, file_name, parent_id, total_chunks, auto_rename) ==
    LET upload_id == UploadId(user_id, file_hash, parent_id)
        conflict == ~auto_rename /\ get_by_name_and_parent(file_meta, file_name, parent_id, user_id) # {}
        fc1 == create_init_chunks(file_chunk, upload_id, total_chunks)
        fc2 == get_uploaded_chunks(fc1, chunk_tmp, upload_id)
        r == IF conflict
             THEN Refused(user_id, "NameConflict")
             ELSE IF quota_used[user_id] + declared_size > QuotaTotal
             THEN Refused(user_id, "QuotaExceeded")
             ELSE Result(Db, fc2, chunk_tmp, quota_used[user_id], "ok", 0,
                         uploaded_chunks(fc1, chunk_tmp, upload_id))
    IN \* the response carries the upload_id; had is the number of rows the
       \* session had when the request came
       [upload_id |-> IF r.st = "ok" THEN upload_id ELSE NoUpload,
        had |-> Cardinality(Slots(file_chunk, upload_id))] @@ r

init_chunk_upload(user_id, file_hash, declared_size, file_name, parent_id, total_chunks, auto_rename) ==
    Commit(user_id, init_chunk_upload_result(user_id, file_hash, declared_size, file_name,
                                             parent_id, total_chunks, auto_rename))

\* files.py:367-392
upload_chunk_result(user_id, upload_id, chunk_index, content) ==
    Result(Db,
           mark_chunk_uploaded(file_chunk, upload_id, chunk_index, Len(content)),
           Put(chunk_tmp, <<upload_id, chunk_index>>, content),
           quota_used[user_id], "ok", 0, {chunk_index})

upload_chunk(user_id, upload_id, chunk_index, content) ==
    Commit(user_id, upload_chunk_result(user_id, upload_id, chunk_index, content))

\* files.py:395-506
merge_chunks_result(user_id, upload_id, file_name, file_hash, parent_id, folder_parts, auto_rename, free) ==
    LET tg == Target(user_id, file_name, parent_id, folder_parts, auto_rename)
        used == quota_used[user_id]
        chunks == get_all_chunks(file_chunk, upload_id)
        pending == {i \in Slots(file_chunk, upload_id) : ~file_chunk[<<upload_id, i>>].is_uploaded}
        v == get_best_storage_path(free)
        final_path == <<v, file_hash>>
        existed == final_path \in DOMAIN tg.s.dk
        w == merge_write(file_chunk, chunk_tmp, upload_id, chunks, <<>>)
        \* after files.py:451-473
        dk1 == IF existed THEN tg.s.dk ELSE Put(tg.s.dk, final_path, w.out)
        ct1 == IF existed THEN remove_chunk_files(file_chunk, chunk_tmp, upload_id) ELSE w.ct
        size == Len(dk1[final_path])
        s2 == [tg.s EXCEPT !.dk = dk1,
                           !.fs = IF file_hash \in DOMAIN tg.s.fs
                                  THEN increment_ref_count(tg.s.fs, file_hash)
                                  ELSE create_file_store(tg.s.fs, file_hash, v, size)]
        s3 == create_with_user(s2, tg.final_filename, FALSE, tg.pid, file_hash, user_id)
    IN IF tg.conflict
       THEN Result(tg.s, file_chunk, chunk_tmp, used, "NameConflict", 0, {})
       ELSE IF chunks = <<>> /\ file_hash # Md5(<<>>)
       THEN Result(tg.s, file_chunk, chunk_tmp, used, "NotFound", 0, {})
       ELSE IF pending # {}
       THEN Result(tg.s, file_chunk, chunk_tmp, used, "IncompleteUpload", 0, {})
       ELSE IF v = NoVolume
       THEN Result(tg.s, file_chunk, chunk_tmp, used, "NoVolumeAvailable", 0, {})
       ELSE IF ~existed /\ ~w.ok
       THEN Result([tg.s EXCEPT !.dk = dk1], file_chunk, ct1, used, "ChunkFileMissing", 0, {})
       ELSE IF ~existed /\ Md5(w.out) # file_hash
       THEN Result(tg.s, file_chunk, ct1, used, "IntegrityMismatch", 0, {})
       ELSE IF used + size > QuotaTotal
       THEN Result([tg.s EXCEPT !.dk = IF file_hash \notin DOMAIN tg.s.fs
                                       THEN Drop(dk1, {final_path})
                                       ELSE dk1],
                   file_chunk, ct1, used, "QuotaExceeded", 0, {})
       ELSE Result(s3, delete_chunks(file_chunk, upload_id), ct1, used + size, "ok", s2.nid, {})

merge_chunks(user_id, upload_id, file_name, file_hash, parent_id, folder_parts, auto_rename, free) ==
    Commit(user_id, merge_chunks_result(user_id, upload_id, file_name, file_hash, parent_id,
                                        folder_parts, auto_rename, free))

(***************************************************************************)
(* Namespace handlers.                                                     *)
(***************************************************************************)
\* files.py:149-166
create_folder_result(user_id, file_name, parent_id) ==
    IF get_by_name_and_parent(file_meta, file_name, parent_id, user_id) # {}
    THEN Refused(user_id, "NameConflict")
    ELSE Result(create_with_user(Db, file_name, TRUE, parent_id, NoHash, user_id),
                file_chunk, chunk_tmp, quota_used[user_id], "ok", next_id, {})

create_folder(user_id, file_name, parent_id) ==
    Commit(user_id, create_folder_result(user_id, file_name, parent_id))

\* the answer of a handler that turns a None from the CRUD call into a 404
Found(id, user_id) ==
    IF id \in DOMAIN file_meta /\ file_meta[id].user_id = user_id THEN "ok" ELSE "NotFound"

\* a delete that removes for good what it should only mark
delete_file_result_hard(user_id, file_id) ==
    Result(permanent_remove(Db, file_id, user_id, {}), file_chunk, chunk_tmp,
           quota_used[user_id], Found(file_id, user_id), file_id, {})

\* files.py:612-621
delete_file_result(user_id, file_id) ==
    Result(remove(Db, file_id, user_id, now, {}), file_chunk, chunk_tmp,
           quota_used[user_id], Found(file_id, user_id), file_id, {})

delete_file(user_id, file_id) == Commit(user_id, delete_file_result(user_id, file_id))

\* files.py:624-633
restore_file_result(user_id, file_id) ==
    Result(restore(Db, file_id, user_id), file_chunk, chunk_tmp,
           quota_used[user_id], Found(file_id, user_id), file_id, {})

restore_file(user_id, file_id) == Commit(user_id, restore_file_result(user_id, file_id))

RECURSIVE calculate_size(_, _, _, _)

\* files.py:646-654 for a row that is still there after the purge which
\* get_trash_files runs before it lists; ok is FALSE when the recursion never ends
calculate_size(s, id, user_id, stack) ==
    IF id \in stack THEN [size |-> 0, ok |-> FALSE]
    ELSE IF ~s.fm[id].is_folder THEN [size |-> file_size(s.fm, s.fs, id), ok |-> TRUE]
    ELSE LET children == trash_rows(s.fm, user_id, id)
             sub == [c \in children |-> calculate_size(s, c, user_id, stack \cup {id})]
             RECURSIVE Sum(_)
             Sum(S) == IF S = {} THEN 0 ELSE sub[Min(S)].size + Sum(S \ {Min(S)})
         IN [size |-> Sum(children), ok |-> \A c \in children : sub[c].ok]

\* files.py:646-656: size_to_free of the row the handler has loaded
size_to_free(s1, file_id, user_id) ==
    IF file_meta[file_id].is_folder
    THEN LET children == trash_rows(s1.fm, user_id, file_id)
             sub == [c \in children |-> calculate_size(s1, c, user_id, {file_id})]
             RECURSIVE Sum(_)
             Sum(S) == IF S = {} THEN 0 ELSE sub[Min(S)].size + Sum(S \ {Min(S)})
         IN [size |-> Sum(children), ok |-> \A c \in children : sub[c].ok]
    ELSE [size |-> file_size(file_meta, file_store, file_id), ok |-> TRUE]

\* files.py:636-662
permanent_delete_file_result(user_id, file_id) ==
    LET \* get_trash_files purges the caller's expired trash before it lists
        s1 == IF file_meta[file_id].is_folder THEN clean_expired_trash(Db, user_id, now) ELSE Db
        sz == size_to_free(s1, file_id, user_id)
        s2 == permanent_remove(s1, file_id, user_id, {})
    IN IF file_id \notin DOMAIN file_meta
       THEN Refused(user_id, "NotFound")
       ELSE Result([s2 EXCEPT !.ok = s1.ok /\ sz.ok /\ s2.ok],
                   file_chunk, chunk_tmp, quota_used[user_id] - sz.size,
                   IF file_id \in DOMAIN s1.fm /\ s1.fm[file_id].user_id = user_id
                   THEN "ok" ELSE "NoneReturned",
                   file_id, {})

permanent_delete_file(user_id, file_id) ==
    Commit(user_id, permanent_delete_file_result(user_id, file_id))

\* files.py:665-678 with one id in file_ids
batch_copy_within(lim, user_id, file_id, target_parent_id) ==
    Result(copy([Db EXCEPT !.lim = lim], file_id, target_parent_id, user_id),
           file_chunk, chunk_tmp, quota_used[user_id], Found(file_id, user_id),
           IF Found(file_id, user_id) = "ok" THEN next_id ELSE 0, {})

batch_copy_result(user_id, file_id, target_parent_id) ==
    batch_copy_within(MaxId, user_id, file_id, target_parent_id)

batch_copy(user_id, file_id, target_parent_id) ==
    Commit(user_id, batch_copy_result(user_id, file_id, target_parent_id))

\* files.py:681-694 with one id in file_ids
batch_move_result(user_id, file_id, target_parent_id) ==
    LET known == Found(file_id, user_id) = "ok"
        walk == get_ancestors(file_meta, target_parent_id, user_id, {})
    IN Result([Db EXCEPT !.fm = move(file_meta, file_id, target_parent_id, user_id),
                         !.ok = (known /\ file_meta[file_id].is_folder) => walk.ok],
              file_chunk, chunk_tmp, quota_used[user_id],
              IF ~known THEN "NotFound"
              ELSE IF move_rejected(file_meta, file_id, target_parent_id, user_id)
              THEN "CyclicMove" ELSE "ok",
              file_id, {})

batch_move(user_id, file_id, target_parent_id) ==
    Commit(user_id, batch_move_result(user_id, file_id, target_parent_id))

\* files.py:123-134
read_trash_files_result(user_id, parent_id) ==
    LET s1 == clean_expired_trash(Db, user_id, now)
    IN Result(s1, file_chunk, chunk_tmp, quota_used[user_id], "ok", 0,
              trash_rows(s1.fm, user_id, parent_id))

read_trash_files(user_id, parent_id) ==
    Commit(user_id, read_trash_files_result(user_id, parent_id))

\* time passes
Tick ==
    /\ now + TickDays <= MaxTime
    /\ now' = now + TickDays
    /\ UNCHANGED <<file_meta, next_id, file_store, disk, file_chunk, chunk_tmp, quota_used, pc, loc>>

(***************************************************************************)
(* Initial state.                                                          *)
(***************************************************************************)
Workers == {1, 2}
Idle == [op |-> "idle"]
Quiet == Outcome("none", "ok", 0, 0, NoHash, NoUpload, {})

Init ==
    /\ file_meta = Empty
    /\ next_id = 1
    /\ file_store = Empty
    /\ disk = Empty
    /\ file_chunk = Empty
    /\ chunk_tmp = Empty
    /\ quota_used = [u \in Users |-> 0]
    /\ now = 0
    /\ last = Quiet
    /\ pc = [w \in Workers |-> "idle"]
    /\ loc = [w \in Workers |-> Idle]

\* the request is answered: its outcome is what the client sees
Seen(op, user_id, r, file_hash, upload_id) ==
    last' = Outcome(op, r.st, user_id, r.node, file_hash, upload_id, r.ret)

(***************************************************************************)
(* Spec: the blob store under every kind of request, handlers running one  *)
(* after another, each to completion.  Outcomes are not recorded.          *)
(***************************************************************************)
\* the request is followed only while the ids it hands out stay within MaxIngestId
FewEntries == next_id' <= MaxIngestId + 1

FileName == <<"a">>
DirName == <<"d">>
Folders == {Root} \cup {i \in DOMAIN file_meta : file_meta[i].is_folder}
OneByte == <<2>>
TwoBytes == <<1, 2>>
Session1 == UploadId(1, Md5(OneByte), Root)

Upload ==
    /\ \E u \in Users, c \in {OneByte, TwoBytes}, free \in FreeSpace :
          upload_file(u, FileName, Root, <<>>, TRUE, c, free)
    /\ FewEntries
    /\ UNCHANGED last

FastUpload ==
    /\ \E u \in Users, c \in {OneByte, TwoBytes} :
          check_fast_upload(u, Md5(c), FileName, Root, <<>>, TRUE)
    /\ FewEntries
    /\ UNCHANGED last

InitChunks ==
    /\ init_chunk_upload(1, Md5(OneByte), 1, FileName, Root, 1, TRUE)
    /\ UNCHANGED last

PutChunk ==
    /\ upload_chunk(1, Session1, 0, OneByte)
    /\ UNCHANGED last

Merge ==
    /\ \E free \in FreeSpace :
          merge_chunks(1, Session1, FileName, Md5(OneByte), Root, <<>>, TRUE, free)
    /\ FewEntries
    /\ UNCHANGED last

CreateFolder ==
    /\ create_folder(1, DirName, Root)
    /\ FewEntries
    /\ UNCHANGED last

Delete ==
    /\ \E u \in Users, i \in Ids : delete_file(u, i)
    /\ UNCHANGED last

Restore ==
    /\ \E u \in Users, i \in Ids : restore_file(u, i)
    /\ UNCHANGED last

PermanentDelete ==
    /\ \E u \in Users, i \in Ids : permanent_delete_file(u, i)
    /\ UNCHANGED last

Copy ==
    /\ \E u \in Users, i \in Ids, p \in Folders : batch_copy(u, i, p)
    /\ FewEntries
    /\ UNCHANGED last

Move ==
    /\ \E u \in Users, i \in Ids, p \in Folders : batch_move(u, i, p)
    /\ UNCHANGED last

ListTrash ==
    /\ \E u \in Users : read_trash_files(u, Root)
    /\ UNCHANGED last

Clock == Tick /\ UNCHANGED last

Next ==
    \/ Upload
    \/ FastUpload
    \/ InitChunks
    \/ PutChunk
    \/ Merge
    \/ CreateFolder
    \/ Delete
    \/ Restore
    \/ PermanentDelete
    \/ Copy
    \/ Move
    \/ ListTrash
    \/ Clock

Spec == Init /\ [][Next]_vars

(***************************************************************************)
(* SpecIngest: the three ways content comes in, requests one after         *)
(* another: whole-file upload and instant upload by user 2, and one chunk  *)
(* session of user 1 claiming the hash of TwoBytes.  The outcome of every  *)
(* request is recorded in last.                                            *)
(***************************************************************************)
Claimed == Md5(TwoBytes)
Session == UploadId(1, Claimed, Root)
ChunkData == {<<1>>, <<2>>}
Paths == {<<>>, <<DirName>>}

IngestUpload ==
    \E u \in {2}, free \in FreeSpace :
        LET r == upload_file_result(u, FileName, Root, <<>>, TRUE, TwoBytes, free)
        IN Commit(u, r) /\ FewEntries /\ Seen("upload_file", u, r, Claimed, NoUpload)

IngestFastUpload ==
    \E u \in {2} :
        LET r == check_fast_upload_result(u, Claimed, FileName, Root, <<>>, TRUE)
        IN Commit(u, r) /\ FewEntries /\ Seen("check_fast_upload", u, r, Claimed, NoUpload)

\* init_chunk_upload of user 1 with total_chunks = n
InitChunksOf(n) ==
    LET r == init_chunk_upload_result(1, Claimed, Len(TwoBytes), FileName, Root, n, TRUE)
    IN /\ Commit(1, r)
       /\ last' = [had |-> r.had] @@ Outcome("init_chunk_upload", r.st, 1, r.node, Claimed,
                                             r.upload_id, r.ret)

IngestInitChunks == \E n \in 1..MaxChunks : InitChunksOf(n)

IngestPutChunk ==
    \E i \in 0..(MaxChunks - 1), d \in ChunkData :
        LET r == upload_chunk_result(1, Session, i, d)
        IN Commit(1, r) /\ Seen("upload_chunk", 1, r, Claimed, Session)

IngestMerge ==
    \E folder_parts \in Paths, free \in FreeSpace :
        LET r == merge_chunks_result(1, Session, FileName, Claimed, Root, folder_parts,
                                     TRUE, free)
        IN Commit(1, r) /\ FewEntries /\ Seen("merge_chunks", 1, r, Claimed, Session)

NextIngest ==
    \/ IngestUpload
    \/ IngestFastUpload
    \/ IngestInitChunks
    \/ IngestPutChunk
    \/ IngestMerge

SpecIngest == Init /\ [][NextIngest]_vars

(***************************************************************************)
(* SpecTree: the namespace of user 1, requests one after another: folders  *)
(* and one-byte files created under any folder, entries deleted, restored, *)
(* permanently deleted, copied and moved.  The parent a move names is any  *)
(* id, as batch_move takes it.  Outcomes are not recorded.                 *)
(***************************************************************************)
Targets == {Root} \cup Ids

TreeUpload ==
    /\ \E p \in Folders, folder_parts \in Paths :
          upload_file(1, FileName, p, folder_parts, TRUE, OneByte, <<1, 1>>)
    /\ UNCHANGED last

TreeCreateFolder ==
    /\ \E p \in Folders : create_folder(1, DirName, p)
    /\ UNCHANGED last

TreeDelete ==
    /\ \E i \in Ids : delete_file(1, i)
    /\ UNCHANGED last

TreeRestore ==
    /\ \E i \in Ids : restore_file(1, i)
    /\ UNCHANGED last

TreePermanentDelete ==
    /\ \E i \in Ids : permanent_delete_file(1, i)
    /\ UNCHANGED last

TreeCopy ==
    /\ \E i \in Ids, p \in Folders : batch_copy(1, i, p)
    /\ UNCHANGED last

TreeMove ==
    /\ \E i \in Ids, p \in Targets : batch_move(1, i, p)
    /\ UNCHANGED last

NextTree ==
    \/ TreeUpload
    \/ TreeCreateFolder
    \/ TreeDelete
    \/ TreeRestore
    \/ TreePermanentDelete
    \/ TreeCopy
    \/ TreeMove

SpecTree == Init /\ [][NextTree]_vars

(***************************************************************************)
(* SpecNames: unique names.  The root of user 1 starts empty or with one   *)
(* folder whose name is drawn from NameSet; files are then uploaded under  *)
(* names of NameSet with auto_rename (files.py get_unique_filename), and   *)
(* entries are copied and moved into the root (_get_unique_filename) and   *)
(* deleted.                                                                *)
(***************************************************************************)
NameSet == {<<"a">>, <<"a", ".", "b">>, <<".", "a", ".", "b">>}

InitNames ==
    /\ file_meta \in {Empty} \cup {Put(Empty, 1, MetaRow(1, Root, nm, TRUE, NoHash)) : nm \in NameSet}
    /\ next_id = Cardinality(DOMAIN file_meta) + 1
    /\ file_store = Empty
    /\ disk = Empty
    /\ file_chunk = Empty
    /\ chunk_tmp = Empty
    /\ quota_used = [u \in Users |-> 0]
    /\ now = 0
    /\ last = Quiet
    /\ pc = [w \in Workers |-> "idle"]
    /\ loc = [w \in Workers |-> Idle]

NamesUpload ==
    /\ \E nm \in NameSet : upload_file(1, nm, Root, <<>>, TRUE, OneByte, <<1, 1>>)
    /\ UNCHANGED last

NamesCopy ==
    /\ \E i \in Ids : batch_copy(1, i, Root)
    /\ UNCHANGED last

NamesMove ==
    /\ \E i \in Ids : batch_move(1, i, Root)
    /\ UNCHANGED last

NamesDelete ==
    /\ \E i \in Ids : delete_file(1, i)
    /\ UNCHANGED last

NextNames ==
    \/ NamesUpload
    \/ NamesCopy
    \/ NamesMove
    \/ NamesDelete

SpecNames == InitNames /\ [][NextNames]_vars

(***************************************************************************)
(* SpecVolumes: where uploads land.  At every upload each volume reports   *)
(* any number of free bytes up to MaxFree, or fails; entries are           *)
(* permanently deleted so that a content can be stored again.              *)
(***************************************************************************)
VolumeReports == [1..Len(Volumes) -> -1..MaxFree]

VolumesUpload ==
    /\ \E u \in Users, content \in {OneByte, TwoBytes}, free \in VolumeReports :
          upload_file(u, FileName, Root, <<>>, TRUE, content, free)
    /\ UNCHANGED last

VolumesPermanentDelete ==
    /\ \E u \in Users, i \in Ids : permanent_delete_file(u, i)
    /\ UNCHANGED last

NextVolumes ==
    \/ VolumesUpload
    \/ VolumesPermanentDelete

SpecVolumes == Init /\ [][NextVolumes]_vars

(***************************************************************************)
(* SpecCopy: copies of subtrees.  User 1 uploads files, by path or not,    *)
(* creates folders, deletes entries and copies entries into folders; the   *)
(* copies take the ids up to MaxCopyId.                                    *)
(***************************************************************************)
CopyUpload ==
    /\ \E p \in Folders, folder_parts \in Paths :
          upload_file(1, FileName, p, folder_parts, TRUE, OneByte, <<1, 1>>)
    /\ UNCHANGED last

CopyCreateFolder ==
    /\ \E p \in Folders : create_folder(1, DirName, p)
    /\ UNCHANGED last

CopyDelete ==
    /\ \E i \in 1..MaxCopyId : delete_file(1, i)
    /\ UNCHANGED last

CopyEntry ==
    /\ \E i \in 1..MaxCopyId, p \in Folders :
          Commit(1, batch_copy_within(MaxCopyId, 1, i, p))
    /\ UNCHANGED last

NextCopy ==
    \/ CopyUpload
    \/ CopyCreateFolder
    \/ CopyDelete
    \/ CopyEntry

SpecCopy == Init /\ [][NextCopy]_vars

(***************************************************************************)
(* Handlers step by step, for requests that overlap.  Worker w serves user *)
(* w in SpecCommitRace and user 1 in SpecMergeRace.  pc[w] is the line the *)
(* handler has reached, loc[w] its local variables.  A step is one query,  *)
(* one commit or one file operation.                                       *)
(***************************************************************************)
\* the local variables of a handler that has resolved its target
Frame(op, user_id, file_hash, size, tg) ==
    [op |-> op, user |-> user_id, file_hash |-> file_hash, file_size |-> size,
     final_filename |-> tg.final_filename, parent_id |-> tg.pid,
     quota_seen |-> quota_used[user_id],    \* current_user as loaded with the request
     v |-> NoVolume, chunks |-> <<>>, todo |-> <<>>, out |-> <<>>,
     unlinked |-> FALSE,                    \* the file it has open was removed meanwhile
     how |-> "none", node |-> 0, st |-> "running"]

Goto(w, label, l) ==
    /\ pc' = [pc EXCEPT ![w] = label]
    /\ loc' = [loc EXCEPT ![w] = l]

Answer(w, st, l) == Goto(w, "done", [l EXCEPT !.st = st])

\* os.remove(final_path): whoever has that file open keeps writing to a file
\* that no path leads to
Unlink(w, l) ==
    /\ disk' = Drop(disk, {<<l.v, l.file_hash>>})
    /\ pc' = [pc EXCEPT ![w] = "done"]
    /\ loc' = [x \in Workers |->
                 IF x = w THEN l
                 ELSE IF pc[x] \in {"append", "verify"} /\ loc[x].v = l.v
                 THEN [loc[x] EXCEPT !.unlinked = TRUE]
                 ELSE loc[x]]

\* files.py:185-220: the upload is named, spooled to its temp file and hashed
UfBegin(w) ==
    LET tg == Target(w, FileName, Root, <<>>, TRUE)
        l == Frame("upload_file", w, Md5(TwoBytes), Len(TwoBytes), tg)
    IN /\ pc[w] = "idle"
       /\ IF l.quota_seen + l.file_size > QuotaTotal
          THEN Answer(w, "QuotaExceeded", l)
          ELSE Goto(w, "lookup", l)
       /\ UNCHANGED <<file_meta, next_id, file_store, disk, file_chunk, chunk_tmp,
                      quota_used, now, last>>

\* files.py:222-223
UfLookup(w) ==
    /\ pc[w] = "lookup" /\ loc[w].op = "upload_file"
    /\ Goto(w, IF loc[w].file_hash \in DOMAIN file_store THEN "bump" ELSE "select", loc[w])
    /\ UNCHANGED <<file_meta, next_id, file_store, disk, file_chunk, chunk_tmp,
                   quota_used, now, last>>

\* files.py:224-226 and 484-485
Bump(w) ==
    /\ pc[w] = "bump"
    /\ file_store' = increment_ref_count(file_store, loc[w].file_hash)
    /\ Goto(w, "meta", [loc[w] EXCEPT !.how = "increment"])
    /\ UNCHANGED <<file_meta, next_id, disk, file_chunk, chunk_tmp, quota_used, now, last>>

\* files.py:228-230 and 446-449
Select(w) ==
    /\ pc[w] = "select"
    /\ \E free \in FreeSpace :
          IF get_best_storage_path(free) = NoVolume
          THEN Answer(w, "NoVolumeAvailable", loc[w])
          ELSE Goto(w, "exists", [loc[w] EXCEPT !.v = get_best_storage_path(free)])
    /\ UNCHANGED <<file_meta, next_id, file_store, disk, file_chunk, chunk_tmp,
                   quota_used, now, last>>

\* files.py:232
UfExists(w) ==
    /\ pc[w] = "exists" /\ loc[w].op = "upload_file"
    /\ Goto(w, IF <<loc[w].v, loc[w].file_hash>> \in DOMAIN disk THEN "drop" ELSE "move",
            loc[w])
    /\ UNCHANGED <<file_meta, next_id, file_store, disk, file_chunk, chunk_tmp,
                   quota_used, now, last>>

\* files.py:233: shutil.move(temp_file_path, final_path)
UfMove(w) ==
    /\ pc[w] = "move"
    /\ disk' = Put(disk, <<loc[w].v, loc[w].file_hash>>, TwoBytes)
    /\ Goto(w, "cfs_check", loc[w])
    /\ UNCHANGED <<file_meta, next_id, file_store, file_chunk, chunk_tmp, quota_used,
                   now, last>>

\* files.py:235: os.remove(temp_file_path)
UfDrop(w) ==
    /\ pc[w] = "drop"
    /\ Goto(w, "cfs_check", loc[w])
    /\ UNCHANGED <<file_meta, next_id, file_store, disk, file_chunk, chunk_tmp,
                   quota_used, now, last>>

\* crud_file.py:168-171
CfsCheck(w) ==
    /\ pc[w] = "cfs_check"
    /\ Goto(w, IF loc[w].file_hash \in DOMAIN file_store THEN "cfs_bump" ELSE "cfs_insert",
            loc[w])
    /\ UNCHANGED <<file_meta, next_id, file_store, disk, file_chunk, chunk_tmp,
                   quota_used, now, last>>

\* crud_file.py:171
CfsBump(w) ==
    /\ pc[w] = "cfs_bump"
    /\ file_store' = increment_ref_count(file_store, loc[w].file_hash)
    /\ Goto(w, "meta", [loc[w] EXCEPT !.how = "increment"])
    /\ UNCHANGED <<file_meta, next_id, disk, file_chunk, chunk_tmp, quota_used, now, last>>

\* crud_file.py:173-185: the INSERT commits, or the primary key turns it down
CfsInsert(w) ==
    /\ pc[w] = "cfs_insert"
    /\ IF loc[w].file_hash \notin DOMAIN file_store
       THEN /\ file_store' = Put(file_store, loc[w].file_hash,
                                 StoreRow(loc[w].v, loc[w].file_size, 1))
            /\ Goto(w, "meta", [loc[w] EXCEPT !.how = "insert"])
       ELSE /\ file_store' = file_store
            /\ Goto(w, "cfs_rollback", loc[w])
    /\ UNCHANGED <<file_meta, next_id, disk, file_chunk, chunk_tmp, quota_used, now, last>>

\* crud_file.py:183-187
CfsRollback(w) ==
    /\ pc[w] = "cfs_rollback"
    /\ file_store' = increment_ref_count(file_store, loc[w].file_hash)
    /\ Goto(w, "meta", [loc[w] EXCEPT !.how = "increment"])
    /\ UNCHANGED <<file_meta, next_id, disk, file_chunk, chunk_tmp, quota_used, now, last>>

\* files.py:241-251 and 490-500
Meta(w) ==
    LET s == create_with_user(Db, loc[w].final_filename, FALSE, loc[w].parent_id,
                              loc[w].file_hash, loc[w].user)
    IN /\ pc[w] = "meta"
       /\ s.ok
       /\ file_meta' = s.fm
       /\ next_id' = s.nid
       /\ Goto(w, "quota", [loc[w] EXCEPT !.node = next_id])
       /\ UNCHANGED <<file_store, disk, file_chunk, chunk_tmp, quota_used, now, last>>

\* files.py:253 and 502; crud_user.py:41-46
Quota(w) ==
    /\ pc[w] = "quota"
    /\ quota_used' = [quota_used EXCEPT ![loc[w].user] = @ + loc[w].file_size]
    /\ IF loc[w].op = "merge_chunks"
       THEN Goto(w, "unslot", loc[w])
       ELSE Answer(w, "ok", loc[w])
    /\ UNCHANGED <<file_meta, next_id, file_store, disk, file_chunk, chunk_tmp, now, last>>

\* bytes written at offset at into a file that holds old; a gap before the
\* offset reads as zero bytes, which are byte 3 here
Overlay(old, at, bytes) ==
    [k \in 1..(IF Len(old) > at + Len(bytes) THEN Len(old) ELSE at + Len(bytes)) |->
        IF k > at /\ k <= at + Len(bytes) THEN bytes[k - at]
        ELSE IF k <= Len(old) THEN old[k]
        ELSE 3]

\* files.py:412-431: the merge request is named
MgBegin(w) ==
    LET tg == Target(1, FileName, Root, <<>>, TRUE)
    IN /\ pc[w] = "idle"
       /\ Goto(w, "slots", Frame("merge_chunks", 1, Claimed, 0, tg))
       /\ UNCHANGED <<file_meta, next_id, file_store, disk, file_chunk, chunk_tmp,
                      quota_used, now, last>>

\* files.py:433-444: the rows of the session are read, and every one must be
\* marked uploaded
MgSlots(w) ==
    LET chunks == get_all_chunks(file_chunk, Session)
        rows == [k \in 1..Len(chunks) |->
                    [chunk_index |-> chunks[k],
                     has_path |-> file_chunk[<<Session, chunks[k]>>].has_path]]
    IN /\ pc[w] = "slots"
       /\ IF chunks = <<>> /\ loc[w].file_hash # Md5(<<>>)
          THEN Answer(w, "NotFound", loc[w])
          ELSE IF \E k \in 1..Len(chunks) : ~file_chunk[<<Session, chunks[k]>>].is_uploaded
          THEN Answer(w, "IncompleteUpload", loc[w])
          ELSE Goto(w, "select", [loc[w] EXCEPT !.chunks = rows])
       /\ UNCHANGED <<file_meta, next_id, file_store, disk, file_chunk, chunk_tmp,
                      quota_used, now, last>>

\* files.py:451
MgExists(w) ==
    /\ pc[w] = "exists" /\ loc[w].op = "merge_chunks"
    /\ Goto(w, IF <<loc[w].v, loc[w].file_hash>> \in DOMAIN disk THEN "discard" ELSE "open",
            loc[w])
    /\ UNCHANGED <<file_meta, next_id, file_store, disk, file_chunk, chunk_tmp,
                   quota_used, now, last>>

\* files.py:453: open(final_path, "wb") creates the file, or empties it
MgOpen(w) ==
    /\ pc[w] = "open"
    /\ disk' = Put(disk, <<loc[w].v, loc[w].file_hash>>, <<>>)
    /\ Goto(w, "append", [loc[w] EXCEPT !.todo = loc[w].chunks, !.out = <<>>])
    /\ UNCHANGED <<file_meta, next_id, file_store, file_chunk, chunk_tmp, quota_used,
                   now, last>>

\* files.py:454-462: the next chunk file is appended and removed, or is missing
MgAppend(w) ==
    LET l == loc[w]
        k == <<Session, Head(l.todo).chunk_index>>
        final_path == <<l.v, l.file_hash>>
    IN /\ pc[w] = "append"
       /\ IF l.todo = <<>>
          THEN /\ Goto(w, "verify", l)
               /\ UNCHANGED <<disk, chunk_tmp>>
          ELSE IF Head(l.todo).has_path /\ k \in DOMAIN chunk_tmp
          THEN /\ disk' = IF l.unlinked \/ final_path \notin DOMAIN disk
                          THEN disk
                          ELSE [disk EXCEPT ![final_path] = Overlay(@, Len(l.out), chunk_tmp[k])]
               /\ chunk_tmp' = Drop(chunk_tmp, {k})
               /\ Goto(w, "append", [l EXCEPT !.todo = Tail(l.todo),
                                              !.out = l.out \o chunk_tmp[k]])
          ELSE /\ Answer(w, "ChunkFileMissing", l)
               /\ UNCHANGED <<disk, chunk_tmp>>
       /\ UNCHANGED <<file_meta, next_id, file_store, file_chunk, quota_used, now, last>>

\* files.py:464-468: the hash of what was read is compared with the claimed hash
MgVerify(w) ==
    /\ pc[w] = "verify"
    /\ IF Md5(loc[w].out) # loc[w].file_hash
       THEN Unlink(w, [loc[w] EXCEPT !.st = "IntegrityMismatch"])
       ELSE Goto(w, "size", loc[w]) /\ disk' = disk
    /\ UNCHANGED <<file_meta, next_id, file_store, file_chunk, chunk_tmp, quota_used,
                   now, last>>

\* files.py:470-473: the file is there already, the chunk files are removed
MgDiscard(w) ==
    /\ pc[w] = "discard"
    /\ chunk_tmp' = Drop(chunk_tmp,
                         {<<Session, loc[w].chunks[k].chunk_index>> :
                             k \in {j \in 1..Len(loc[w].chunks) : loc[w].chunks[j].has_path}})
    /\ Goto(w, "size", loc[w])
    /\ UNCHANGED <<file_meta, next_id, file_store, disk, file_chunk, quota_used, now, last>>

\* files.py:475-481: os.path.getsize(final_path) and the quota check
MgSize(w) ==
    LET l == loc[w]
        final_path == <<l.v, l.file_hash>>
        size == Len(disk[final_path])
    IN /\ pc[w] = "size"
       /\ IF final_path \notin DOMAIN disk
          THEN Answer(w, "FileNotFoundError", l) /\ disk' = disk
          ELSE IF l.quota_seen + size > QuotaTotal
          THEN IF l.file_hash \notin DOMAIN file_store
               THEN Unlink(w, [l EXCEPT !.st = "QuotaExceeded"])
               ELSE Answer(w, "QuotaExceeded", l) /\ disk' = disk
          ELSE Goto(w, "lookup", [l EXCEPT !.file_size = size]) /\ disk' = disk
       /\ UNCHANGED <<file_meta, next_id, file_store, file_chunk, chunk_tmp, quota_used,
                      now, last>>

\* files.py:483-489
MgLookup(w) ==
    /\ pc[w] = "lookup" /\ loc[w].op = "merge_chunks"
    /\ Goto(w, IF loc[w].file_hash \in DOMAIN file_store THEN "bump" ELSE "cfs_check", loc[w])
    /\ UNCHANGED <<file_meta, next_id, file_store, disk, file_chunk, chunk_tmp,
                   quota_used, now, last>>

\* files.py:504
MgUnslot(w) ==
    /\ pc[w] = "unslot"
    /\ file_chunk' = delete_chunks(file_chunk, Session)
    /\ Answer(w, "ok", loc[w])
    /\ UNCHANGED <<file_meta, next_id, file_store, disk, chunk_tmp, quota_used, now, last>>

(***************************************************************************)
(* SpecCommitRace: users 1 and 2 each upload TwoBytes, a content no row    *)
(* knows, their requests overlapping in any way.                           *)
(***************************************************************************)
NextCommitRace ==
    \E w \in Workers :
        \/ UfBegin(w)
        \/ UfLookup(w)
        \/ Bump(w)
        \/ Select(w)
        \/ UfExists(w)
        \/ UfMove(w)
        \/ UfDrop(w)
        \/ CfsCheck(w)
        \/ CfsBump(w)
        \/ CfsInsert(w)
        \/ CfsRollback(w)
        \/ Meta(w)
        \/ Quota(w)

SpecCommitRace == Init /\ [][NextCommitRace]_vars

(***************************************************************************)
(* SpecMergeRace: user 1 sets up the session for TwoBytes in two chunks    *)
(* and sends two merge requests for it, overlapping in any way.            *)
(***************************************************************************)
RaceInit ==
    /\ init_chunk_upload(1, Claimed, Len(TwoBytes), FileName, Root, Len(TwoBytes), TRUE)
    /\ UNCHANGED last

RacePutChunk ==
    /\ \E i \in 0..(Len(TwoBytes) - 1) : upload_chunk(1, Session, i, <<TwoBytes[i + 1]>>)
    /\ UNCHANGED last

NextMergeRace ==
    \/ RaceInit
    \/ RacePutChunk
    \/ \E w \in Workers :
          \/ MgBegin(w)
          \/ MgSlots(w)
          \/ Select(w)
          \/ MgExists(w)
          \/ MgOpen(w)
          \/ MgAppend(w)
          \/ MgVerify(w)
          \/ MgDiscard(w)
          \/ MgSize(w)
          \/ MgLookup(w)
          \/ Bump(w)
          \/ CfsCheck(w)
          \/ CfsBump(w)
          \/ CfsInsert(w)
          \/ CfsRollback(w)
          \/ Meta(w)
          \/ Quota(w)
          \/ MgUnslot(w)

SpecMergeRace == Init /\ [][NextMergeRace]_vars

(***************************************************************************)
(* get_or_create_path step by step.  Both workers serve user 1 and resolve *)
(* PathParts under the root.  A worker is inside folder_creation_lock      *)
(* while its pc is one of LockedAt.  A session reads either the table as   *)
(* it is or, where the database gives repeatable reads, as it was when the *)
(* session's transaction began: loc[w].snap.  The first folder of the path *)
(* may also be created by a create_folder request.                         *)
(***************************************************************************)
PathParts == <<<<"d">>, <<"e">>>>
LockedAt == {"path_query", "path_create", "path_dupes"}

\* crud_file.py:353-359 and 376-382: the active folders of that name there
folders_named(fm, user_id, parent_id, folder_name) ==
    {i \in DOMAIN fm : /\ fm[i].user_id = user_id
                       /\ fm[i].parent_id = parent_id
                       /\ fm[i].file_name = folder_name
                       /\ fm[i].is_folder
                       /\ ~fm[i].is_deleted}

primary_folder_newest(existing_folders) == existing_folders[Len(existing_folders)]

\* crud_file.py:386
primary_folder(existing_folders) == existing_folders[1]

\* the request arrives: get_current_user has read through the session
PathBegin(w) ==
    /\ pc[w] = "idle"
    /\ Goto(w, "path_wait", [op |-> "get_or_create_path", user |-> 1, parts |-> PathParts,
                             current_parent_id |-> Root, snap |-> file_meta,
                             new_folder |-> 0, st |-> "running"])
    /\ UNCHANGED <<file_meta, next_id, file_store, disk, file_chunk, chunk_tmp,
                   quota_used, now, last>>

\* crud_file.py:346: with folder_creation_lock
PathLock(w) ==
    /\ pc[w] = "path_wait"
    /\ \A x \in Workers : pc[x] \notin LockedAt
    /\ Goto(w, "path_query", loc[w])
    /\ UNCHANGED <<file_meta, next_id, file_store, disk, file_chunk, chunk_tmp,
                   quota_used, now, last>>

\* crud_file.py:347-362 and 403: the next segment is looked up.  .first() has
\* no ORDER BY: a database that reads the latest committed rows may return
\* any matching folder; one that reads from the transaction's snapshot
\* (InnoDB) returns rows in primary key order, the lowest id first
PathQuery(w) ==
    LET l == loc[w]
    IN /\ pc[w] = "path_query"
       /\ IF l.parts = <<>>
          THEN Answer(w, "ok", l)
          ELSE \E view \in {file_meta, l.snap} :
                 LET found == folders_named(view, l.user, l.current_parent_id, Head(l.parts))
                 IN IF found # {}
                    THEN \E folder \in (IF view = file_meta THEN found ELSE {Min(found)}) :
                           Goto(w, "path_query", [l EXCEPT !.current_parent_id = folder,
                                                           !.parts = Tail(l.parts)])
                    ELSE Goto(w, "path_create", l)
       /\ UNCHANGED <<file_meta, next_id, file_store, disk, file_chunk, chunk_tmp,
                      quota_used, now, last>>

\* crud_file.py:364-374
PathCreate(w) ==
    LET l == loc[w]
    IN /\ pc[w] = "path_create"
       /\ next_id <= MaxPathId
       /\ file_meta' = Put(file_meta, next_id,
                           MetaRow(l.user, l.current_parent_id, Head(l.parts), TRUE, NoHash))
       /\ next_id' = next_id + 1
       /\ Goto(w, "path_dupes", [l EXCEPT !.new_folder = next_id])
       /\ UNCHANGED <<file_store, disk, file_chunk, chunk_tmp, quota_used, now, last>>

\* crud_file.py:376-401
PathDupes(w) ==
    LET l == loc[w]
        existing_folders == Sorted(folders_named(file_meta, l.user, l.current_parent_id,
                                                 Head(l.parts)))
        dups == {existing_folders[k] : k \in 2..Len(existing_folders)}
        empty_dups == {d \in dups : ~\E c \in DOMAIN file_meta : file_meta[c].parent_id = d}
    IN /\ pc[w] = "path_dupes"
       /\ IF Len(existing_folders) > 1
          THEN /\ file_meta' = Drop(file_meta, empty_dups)
               /\ Goto(w, "path_query",
                       [l EXCEPT !.current_parent_id = primary_folder(existing_folders),
                                 !.parts = Tail(l.parts), !.snap = file_meta'])
          ELSE /\ file_meta' = file_meta
               /\ Goto(w, "path_query",
                       [l EXCEPT !.current_parent_id = l.new_folder,
                                 !.parts = Tail(l.parts), !.snap = file_meta])
       /\ UNCHANGED <<next_id, file_store, disk, file_chunk, chunk_tmp, quota_used, now, last>>

\* a request to create the first folder of the path arrives on its own,
\* at any moment: create_folder does not take folder_creation_lock
PathFolder ==
    /\ create_folder(1, PathParts[1], Root)
    /\ UNCHANGED last

NextPathRace ==
    \/ PathFolder
    \/ \E w \in Workers :
          \/ PathBegin(w)
          \/ PathLock(w)
          \/ PathQuery(w)
          \/ PathCreate(w)
          \/ PathDupes(w)

SpecPathRace == Init /\ [][NextPathRace]_vars

(***************************************************************************)
(* Reference counts.                                                       *)
(***************************************************************************)
\* the file entries, active or in the trash, of any owner, that refer to hash h
RefNodes(h) == {i \in DOMAIN file_meta : ~file_meta[i].is_folder /\ file_meta[i].file_hash = h}

\* the hashes some file_store row or some file_meta row names
KnownHashes == (DOMAIN file_store) \cup ({file_meta[i].file_hash : i \in DOMAIN file_meta} \ {NoHash})

\* the file_store row of h is there and so is the file at its real_path
Stored(h) == h \in DOMAIN file_store /\ <<file_store[h].real_path, h>> \in DOMAIN disk

\* C1: between requests, every file_store row's ref_count is the number of file
\* entries (active or soft-deleted, of any owner) with its hash, and a row
\* together with the file it points to exists exactly for the hashes that at
\* least one file entry refers to.
C1_RefCountIsNodeCount ==
    \A h \in KnownHashes :
        /\ h \in DOMAIN file_store => file_store[h].ref_count = Cardinality(RefNodes(h))
        /\ Stored(h) <=> Cardinality(RefNodes(h)) >= 1

\* C1 witness: a row counted twice, shared by entries of two owners, one of them
\* in the trash
C1_SharedAcrossOwners ==
    \E h \in DOMAIN file_store :
        /\ file_store[h].ref_count = 2
        /\ \E i \in RefNodes(h), j \in RefNodes(h) :
              /\ file_meta[i].user_id # file_meta[j].user_id
              /\ file_meta[i].is_deleted
              /\ ~file_meta[j].is_deleted

(***************************************************************************)
(* Ingestion: what is on the volumes, and what a merge does.               *)
(***************************************************************************)
\* the volumes that hold a file under the permanent name of hash h
Copies(h) == {Volumes[k] : k \in {j \in 1..Len(Volumes) : <<Volumes[j], h>> \in DOMAIN disk}}

\* the volumes that hold the complete content of hash h under its permanent name
BlobCopies(h) == {v \in Copies(h) : Md5(disk[<<v, h>>]) = h}

\* the session's slots, as the step that is being taken found them
TotalChunks == Cardinality(Slots(file_chunk, Session))
AllUploaded == \A i \in Slots(file_chunk, Session) : file_chunk[<<Session, i>>].is_uploaded
AllData == \A i \in Slots(file_chunk, Session) : <<Session, i>> \in DOMAIN chunk_tmp

\* chunk 0 || chunk 1 || ... || chunk n-1 of the session's chunk files
RECURSIVE Joined(_)
Joined(n) == IF n = 0 THEN <<>> ELSE Joined(n - 1) \o chunk_tmp[<<Session, n - 1>>]

\* the step is a merge request on the session, and how it was answered
MergeStep == last'.op = "merge_chunks"
MergeAnswer == last'.st

\* C2: content that came in N times, by whatever mix of whole-file upload,
\* chunk merge and instant upload, is held as one copy on one volume and one
\* file_store row whose ref_count is N, with N file entries naming it.
C2_OneBlobPerContent ==
    \A h \in KnownHashes :
        RefNodes(h) # {} =>
            /\ Cardinality(BlobCopies(h)) <= 1
            /\ Cardinality(Copies(h)) >= 1
            /\ h \in DOMAIN file_store
            /\ file_store[h].ref_count = Cardinality(RefNodes(h))

\* C4: every file_store row points to a file whose bytes hash to the row's key,
\* and a merge that has just failed leaves no file under the claimed hash's
\* permanent name, unless a row already accounts for that file.
C4_NoPartialBlob ==
    /\ \A h \in DOMAIN file_store :
          /\ <<file_store[h].real_path, h>> \in DOMAIN disk
          /\ Md5(disk[<<file_store[h].real_path, h>>]) = h
    /\ (last.op = "merge_chunks" /\ last.st # "ok") =>
          \A v \in Copies(last.hash) :
              last.hash \in DOMAIN file_store /\ file_store[last.hash].real_path = v

\* C5: a merge is accepted only if all chunk data is there and its concatenation
\* in index order hashes to the claimed hash, and whenever it does, the merge is
\* not turned down for its content.
C5_AcceptedIffHashMatches ==
    [][(MergeStep /\ TotalChunks > 0 /\ AllUploaded) =>
          /\ MergeAnswer = "ok" => (AllData /\ Md5(Joined(TotalChunks)) = last'.hash)
          /\ (AllData /\ Md5(Joined(TotalChunks)) = last'.hash) =>
                MergeAnswer \notin {"IntegrityMismatch", "ChunkFileMissing"}]_vars

\* C6: a merge answered IntegrityMismatch has created no file_store row and no
\* file_meta row, changed no ref_count, left no merged output behind, and no
\* chunk file of the session survives it.
C6_MismatchLeavesNothing ==
    [][(MergeStep /\ MergeAnswer = "IntegrityMismatch") =>
          /\ file_store' = file_store
          /\ file_meta' = file_meta
          /\ disk' = disk
          /\ \A k \in DOMAIN chunk_tmp' : k[1] # Session]_vars

\* C7: a merge on a session with a slot that is not marked uploaded is turned
\* down (IncompleteUpload, or NameConflict where the name is taken) and changes
\* no file_store row, no file_meta row, no slot and no chunk file.
C7_IncompleteMergeChangesNothing ==
    [][(MergeStep /\ ~AllUploaded) =>
          /\ MergeAnswer \in {"IncompleteUpload", "NameConflict"}
          /\ file_store' = file_store
          /\ file_meta' = file_meta
          /\ disk' = disk
          /\ file_chunk' = file_chunk
          /\ chunk_tmp' = chunk_tmp]_vars

\* C9: on a session whose chunks are all there, in whatever order they came, a
\* merge that gets to the content writes chunk 0 || ... || chunk n-1 and is
\* accepted exactly when that concatenation hashes to the claimed hash.
C9_AscendingOrderDecides ==
    [][(MergeStep /\ TotalChunks > 0 /\ AllUploaded /\ AllData
            /\ MergeAnswer \in {"ok", "IntegrityMismatch"}) =>
          /\ MergeAnswer = "ok" <=> Md5(Joined(TotalChunks)) = last'.hash
          /\ \A k \in (DOMAIN disk') \ (DOMAIN disk) : disk'[k] = Joined(TotalChunks)]_vars

(***************************************************************************)
(* Re-initialising a session.                                              *)
(***************************************************************************)
\* the step is an init request that was accepted and found the session with as
\* many slots as it asks for
ReinitStep ==
    /\ last'.op = "init_chunk_upload"
    /\ last'.st = "ok"
    /\ TotalChunks > 0
    /\ Cardinality(Slots(file_chunk', Session)) = TotalChunks

\* slot i is marked uploaded and its chunk file is there
Live(i) ==
    /\ file_chunk[<<Session, i>>].is_uploaded
    /\ file_chunk[<<Session, i>>].has_path
    /\ <<Session, i>> \in DOMAIN chunk_tmp

C11_NewCountStartsAfresh ==
    [][\A n \in 1..MaxChunks :
          (InitChunksOf(n) /\ last'.st = "ok" /\ TotalChunks > 0 /\ TotalChunks # n) =>
              /\ Slots(file_chunk', Session) = 0..(n - 1)
              /\ \A i \in 0..(n - 1) : ~file_chunk'[<<Session, i>>].is_uploaded
              /\ last'.ret = {}
              /\ uploaded_chunks(file_chunk', chunk_tmp', Session) = {}]_vars

\* C11 witness: an accepted init that found the session with one slot has
\* left two pending slots and reported nothing, although the chunk file of
\* index 0 is still there
C11_RestartedWithOldData ==
    /\ last.op = "init_chunk_upload"
    /\ last.st = "ok"
    /\ last.had = 1
    /\ last.ret = {}
    /\ Slots(file_chunk, Session) = {0, 1}
    /\ \A i \in {0, 1} : ~file_chunk[<<Session, i>>].is_uploaded /\ ~file_chunk[<<Session, i>>].has_path
    /\ <<Session, 0>> \in DOMAIN chunk_tmp
    /\ <<Session, 1>> \notin DOMAIN chunk_tmp

\* C12: the query of the uploaded chunks that an accepted init runs on the
\* rows create_init_chunks has left returns exactly the indices marked
\* uploaded whose chunk file is there, sets every row marked uploaded whose
\* chunk file is gone back to pending, and changes no other row and no file.
C12_QueryReturnsLiveAndHeals ==
    [][\A n \in 1..MaxChunks :
          (InitChunksOf(n) /\ last'.st = "ok") =>
              LET fc1 == create_init_chunks(file_chunk, Session, n)
                  marked == {i \in Slots(fc1, Session) : fc1[<<Session, i>>].is_uploaded}
                  there(i) == <<Session, i>> \in DOMAIN chunk_tmp
              IN /\ last'.ret = {i \in marked : there(i)}
                 /\ DOMAIN file_chunk' = DOMAIN fc1
                 /\ \A k \in DOMAIN fc1 :
                       file_chunk'[k] =
                           IF k[1] = Session /\ k[2] \in marked /\ ~there(k[2])
                           THEN [fc1[k] EXCEPT !.is_uploaded = FALSE]
                           ELSE fc1[k]
                 /\ chunk_tmp' = chunk_tmp]_vars

\* C12 witness: the query of an accepted init has returned nothing because the
\* one slot that was marked uploaded had lost its chunk file, and has set it back
C12_HealedTheOnlyUpload ==
    /\ last.op = "init_chunk_upload"
    /\ last.st = "ok"
    /\ last.ret = {}
    /\ \E i \in Slots(file_chunk, Session) :
          /\ ~file_chunk[<<Session, i>>].is_uploaded
          /\ file_chunk[<<Session, i>>].has_path
          /\ file_chunk[<<Session, i>>].chunk_size > 0
          /\ <<Session, i>> \notin DOMAIN chunk_tmp

(***************************************************************************)
(* Overlapping requests.                                                   *)
(***************************************************************************)
\* every worker's request has been answered, and accepted
AllAccepted == \A w \in Workers : pc[w] = "done" /\ loc[w].st = "ok"

\* C3: two uploads of the same unknown content that overlap in whatever way and
\* are both accepted leave one file_store row that exactly one of them
\* inserted, the other having incremented it, with ref_count 2, and the
\* content is held on exactly one volume.
C3_OneInsertOneCopy ==
    AllAccepted =>
        /\ Cardinality({w \in Workers : loc[w].how = "insert"}) = 1
        /\ Cardinality({w \in Workers : loc[w].how = "increment"}) = 1
        /\ Claimed \in DOMAIN file_store
        /\ file_store[Claimed].ref_count = 2
        /\ Cardinality(Copies(Claimed)) = 1

\* C8: whatever way two merge requests for the one session overlap, the
\* session's data ends up in at most one file entry and is counted at most
\* once in ref_count.
C8_OneNodePerSession ==
    /\ Cardinality(RefNodes(Claimed)) <= 1
    /\ Claimed \in DOMAIN file_store => file_store[Claimed].ref_count <= 1

(***************************************************************************)
(* The namespace.                                                          *)
(***************************************************************************)
\* the entries met going up from j by parent_id, at most n of them
RECURSIVE Chain(_, _, _)
Chain(fm, j, n) ==
    IF n = 0 \/ j \notin DOMAIN fm THEN {}
    ELSE LET p == fm[j].parent_id
         IN IF p = Root \/ p \notin DOMAIN fm THEN {} ELSE {p} \cup Chain(fm, p, n - 1)

Ancestors(fm, j) == Chain(fm, j, Cardinality(DOMAIN fm))
Descendants(fm, i) == {j \in DOMAIN fm : i \in Ancestors(fm, j)}

\* every entry is under the root or under a folder that is there, and no entry
\* is above itself
TreeShaped(fm) ==
    \A i \in DOMAIN fm :
        /\ fm[i].parent_id # Root => (fm[i].parent_id \in DOMAIN fm /\ fm[fm[i].parent_id].is_folder)
        /\ i \notin Ancestors(fm, i)

\* C13: in every state the namespace can be in where the entries form a tree
\* of folders, and for every entry n of it, a restore of n that is answered
\* leaves n, every ancestor of n and every descendant of n at any depth not
\* deleted, with no deletion time.
C13_RestoreClearsChainAndSubtree ==
    \A n \in DOMAIN file_meta :
        LET r == restore_file_result(1, n)
        IN (TreeShaped(file_meta) /\ r.s.ok /\ r.st = "ok") =>
              \A j \in {n} \cup Ancestors(file_meta, n) \cup Descendants(file_meta, n) :
                  ~r.s.fm[j].is_deleted /\ r.s.fm[j].deleted_at = NoTime

\* C14: in every state the namespace can be in and for every folder of it, a
\* delete of the folder that is answered leaves the folder and every
\* descendant of it at any depth deleted, with a deletion time.
C14_DeleteReachesSubtree ==
    \A n \in DOMAIN file_meta :
        LET r == delete_file_result(1, n)
        IN (file_meta[n].is_folder /\ r.s.ok /\ r.st = "ok") =>
              \A j \in {n} \cup Descendants(file_meta, n) :
                  r.s.fm[j].is_deleted /\ r.s.fm[j].deleted_at # NoTime

\* C15: in every state the namespace can be in, a delete and a restore of any
\* id leave every file_store row (its ref_count with it), every stored file
\* and the caller's quota_used as they were, and remove no entry.
C15_TrashKeepsBlobsAndQuota ==
    \A i \in Ids :
        LET d == delete_file_result(1, i)
            r == restore_file_result(1, i)
        IN /\ d.s.ok => /\ d.s.fs = file_store
                         /\ d.s.dk = disk
                         /\ d.used = quota_used[1]
                         /\ DOMAIN d.s.fm = DOMAIN file_meta
           /\ r.s.ok => /\ r.s.fs = file_store
                         /\ r.s.dk = disk
                         /\ r.used = quota_used[1]
                         /\ DOMAIN r.s.fm = DOMAIN file_meta

\* C15 witness: a file has been deleted, is the one entry of its content,
\* and its file_store row, its stored file and the quota it takes are all there
C15_DeletedFileStillCounted ==
    \E i \in DOMAIN file_meta :
        /\ ~file_meta[i].is_folder
        /\ file_meta[i].is_deleted
        /\ RefNodes(file_meta[i].file_hash) = {i}
        /\ Stored(file_meta[i].file_hash)
        /\ file_store[file_meta[i].file_hash].ref_count = 1
        /\ quota_used[1] = file_store[file_meta[i].file_hash].file_size

\* the sizes of the entries in S added up, a folder counting 0
RECURSIVE SizeOf(_, _, _)
SizeOf(fm, fs, S) ==
    IF S = {} THEN 0
    ELSE file_size(fm, fs, Min(S)) + SizeOf(fm, fs, S \ {Min(S)})

\* C16: in every state the namespace can be in where the entries form a tree
\* of folders, a permanent delete of an entry that is answered removes the
\* entry and every descendant of it and nothing else, and takes from the
\* caller's quota_used exactly the sizes of the files it removes, deleted or
\* not.
C16_FreedIsSizeOfDestroyed ==
    \A n \in DOMAIN file_meta :
        LET r == permanent_delete_file_result(1, n)
            destroyed == (DOMAIN file_meta) \ (DOMAIN r.s.fm)
        IN (TreeShaped(file_meta) /\ r.s.ok /\ r.st = "ok") =>
              /\ destroyed = {n} \cup Descendants(file_meta, n)
              /\ quota_used[1] - r.used = SizeOf(file_meta, file_store, destroyed)

\* C17: in every state the namespace can be in, for every entry x, file or
\* folder, and every target y, the move of x to y is refused as cyclic exactly
\* when y is x or a descendant of x; a refused move leaves every entry as it
\* was, and any other move leaves x with y as its parent.
C17_RefusedIffIntoOwnSubtree ==
    \A x \in DOMAIN file_meta, y \in Targets :
        LET r == batch_move_result(1, x, y)
        IN r.s.ok =>
              /\ r.st = "CyclicMove" <=> (y = x \/ y \in Descendants(file_meta, x))
              /\ r.st = "CyclicMove" => r.s.fm = file_meta
              /\ r.st # "CyclicMove" => r.s.fm[x].parent_id = y

\* C18: after any sequence of creations, uploads with a path, copies, moves,
\* deletes and restores no entry is met again going up from it by parent_id:
\* the walk ends at the root or at a parent that is not there.
C18_NoEntryAboveItself ==
    \A i \in DOMAIN file_meta : i \notin Ancestors(file_meta, i)

\* C19: after any sequence of creations, uploads, copies, moves, deletes and
\* restores, no two entries of one owner that are not deleted have the same
\* name under the same parent.
C19_ActiveSiblingNamesDiffer ==
    \A i, j \in DOMAIN file_meta :
        (/\ i # j
         /\ file_meta[i].user_id = file_meta[j].user_id
         /\ file_meta[i].parent_id = file_meta[j].parent_id
         /\ ~file_meta[i].is_deleted
         /\ ~file_meta[j].is_deleted) => file_meta[i].file_name # file_meta[j].file_name

(***************************************************************************)
(* Unique names.                                                           *)
(***************************************************************************)
\* the names of the entries of user 1 under the root that are not deleted
ActiveNames ==
    {file_meta[i].file_name : i \in {j \in DOMAIN file_meta : /\ file_meta[j].user_id = 1
                                                               /\ file_meta[j].parent_id = Root
                                                               /\ ~file_meta[j].is_deleted}}

\* the name before the extension and the extension: the extension starts at
\* the last dot that has something other than dots before it
StemOf(nm) ==
    IF LastDot(nm) > 0 /\ \E j \in 1..(LastDot(nm) - 1) : nm[j] # "."
    THEN SubSeq(nm, 1, LastDot(nm) - 1) ELSE nm
ExtensionOf(nm) == SubSeq(nm, Len(StemOf(nm)) + 1, Len(nm))

\* got is what the claim asks of a unique name for nm among the active names
IsUniqueNameFor(got, nm) ==
    /\ got \notin ActiveNames
    /\ nm \notin ActiveNames => got = nm
    /\ nm \in ActiveNames =>
          \E n \in 1..(Cardinality(ActiveNames) + 1) :
              /\ got = StemOf(nm) \o <<" ", "(">> \o Str(n) \o <<")">> \o ExtensionOf(nm)
              /\ \A m \in 1..(n - 1) :
                    (StemOf(nm) \o <<" ", "(">> \o Str(m) \o <<")">> \o ExtensionOf(nm)) \in ActiveNames

\* C20: whatever entries the root holds, for every name both functions that
\* make a name unique return the name itself when no active entry under the
\* root has it, and otherwise the name with " (n)" put before its extension
\* for the least n >= 1 that gives a name no active entry has; what they
\* return is never the name of an active entry.
C20_UniqueNameNumbersBeforeExtension ==
    \A nm \in NameSet :
        /\ IsUniqueNameFor(get_unique_filename_crud(file_meta, 1, Root, nm), nm)
        /\ IsUniqueNameFor(get_unique_filename(file_meta, nm, Root, 1), nm)

(***************************************************************************)
(* Paths resolved by overlapping requests.                                 *)
(***************************************************************************)
AllResolved == \A w \in Workers : pc[w] = "done" /\ loc[w].op = "get_or_create_path"

\* the active folders of user 1 that the first n segments of PathParts lead to
RECURSIVE Reached(_)
Reached(n) ==
    IF n = 0 THEN {Root}
    ELSE UNION {folders_named(file_meta, 1, p, PathParts[n]) : p \in Reached(n - 1)}

UnderDeleted(fm, i) ==
    /\ fm[i].is_deleted
    /\ fm[i].parent_id \in DOMAIN fm
    /\ fm[fm[i].parent_id].is_deleted

IsCopyOf(f, fm, gm, S, i, p) ==
    /\ \A a, b \in S : f[a] = f[b] => a = b
    /\ {f[a] : a \in S} = (DOMAIN gm) \ (DOMAIN fm)
    /\ \A a \in S :
          /\ ~gm[f[a]].is_deleted
          /\ gm[f[a]].user_id = fm[a].user_id
          /\ gm[f[a]].is_folder = fm[a].is_folder
          /\ gm[f[a]].file_hash = fm[a].file_hash
          /\ gm[f[a]].parent_id = IF a = i THEN p ELSE f[fm[a].parent_id]
          /\ a # i => gm[f[a]].file_name = fm[a].file_name

\* C23: in every state, for every entry i of user 1 and every active folder
\* p of user 1 (or the root), when the ids that are left suffice for the
\* subtree of i, copying i to p ends, adds exactly one active entry for i
\* and for each of its descendants, in the same shape and with the same
\* folder flags and hashes, writes no file and leaves every entry that was
\* there as it was.
C23_CopyClonesSubtree ==
    \A i \in DOMAIN file_meta : \A p \in Folders :
        LET S == {i} \cup Descendants(file_meta, i)
            r == batch_copy_within(MaxCopyId, 1, i, p)
        IN (file_meta[i].user_id = 1 /\ next_id + Cardinality(S) - 1 <= MaxCopyId) =>
              /\ r.s.ok
              /\ \E f \in [S -> (DOMAIN r.s.fm) \ (DOMAIN file_meta)] :
                    IsCopyOf(f, file_meta, r.s.fm, S, i, p)
              /\ \A a \in DOMAIN file_meta : r.s.fm[a] = file_meta[a]
              /\ r.s.dk = disk

(***************************************************************************)
(* The purge of expired entries.                                           *)
(***************************************************************************)
\* the entries of user u in table fm deleted more than TrashDays before t
Expired(fm, u, t) ==
    {i \in DOMAIN fm : /\ fm[i].user_id = u
                       /\ fm[i].is_deleted
                       /\ fm[i].deleted_at # NoTime
                       /\ fm[i].deleted_at < t - TrashDays}

\* C24: in every state, purging the expired entries of a user ends, leaves
\* no entry of that user that was deleted more than TrashDays ago, and
\* lowers the ref_count of every hash by the number of file entries the
\* purge removed that had it, the row going away when that leaves none.
C24_PurgeLeavesNoExpired ==
    \A u \in Users :
        LET s1 == clean_expired_trash(Db, u, now)
            removed == (DOMAIN file_meta) \ (DOMAIN s1.fm)
            lost(h) == Cardinality({i \in removed : /\ ~file_meta[i].is_folder
                                                    /\ file_meta[i].file_hash = h})
        IN /\ s1.ok
           /\ Expired(s1.fm, u, now) = {}
           /\ Expired(file_meta, u, now) \subseteq removed
           /\ \A h \in DOMAIN file_store :
                 IF lost(h) > 0 /\ file_store[h].ref_count - lost(h) <= 0
                 THEN h \notin DOMAIN s1.fs
                 ELSE /\ h \in DOMAIN s1.fs
                      /\ s1.fs[h].ref_count = file_store[h].ref_count - lost(h)

\* an expired file of user 1 shares its content with an entry that stays
C24_ExpiredFileSharesBlob ==
    \E i \in Expired(file_meta, 1, now) :
        /\ ~file_meta[i].is_folder
        /\ file_meta[i].file_hash \in DOMAIN file_store
        /\ file_store[file_meta[i].file_hash].ref_count = 2
        /\ clean_expired_trash(Db, 1, now).fs[file_meta[i].file_hash].ref_count = 1

(***************************************************************************)
(* What holds of the tree between requests.                                *)
(***************************************************************************)
\* C25: in every state between requests, every entry below a deleted folder
\* is deleted.
C25_DeletedFolderHoldsOnlyDeleted ==
    \A i \in DOMAIN file_meta :
        (file_meta[i].is_folder /\ file_meta[i].is_deleted) =>
            \A j \in Descendants(file_meta, i) : file_meta[j].is_deleted

\* C26: in every state, an entry whose parent_id is the id of an entry has
\* the same owner as that entry.
C26_ParentHasSameOwner ==
    \A i \in DOMAIN file_meta :
        file_meta[i].parent_id \in DOMAIN file_meta =>
            file_meta[file_meta[i].parent_id].user_id = file_meta[i].user_id

(***************************************************************************)
(* Requests that are turned down.                                          *)
(***************************************************************************)
\* result r of a request of user u has left the tables, the stored files and
\* the user's quota_used as they are
NothingDone(u, r) ==
    /\ r.s.fm = file_meta
    /\ r.s.fs = file_store
    /\ r.s.dk = disk
    /\ r.used = quota_used[u]

\* C27: in every state, an upload whose bytes, counted as received, do not
\* fit in what is left of the user's quota is answered QuotaExceeded (or
\* NameConflict where the name is taken and no renaming was asked for) and
\* creates no entry and no file_store row, changes no ref_count, stores no
\* file and leaves quota_used as it was.
C27_OverQuotaUploadLeavesNothing ==
    \A u \in Users, folder_parts \in Paths, auto_rename \in BOOLEAN,
       content \in {OneByte, TwoBytes} :
        LET r == upload_file_result(u, FileName, Root, folder_parts, auto_rename, content,
                                    <<1, 1>>)
        IN (r.s.ok /\ quota_used[u] + Len(content) > QuotaTotal) =>
              /\ r.st \in {"QuotaExceeded", "NameConflict"}
              /\ NothingDone(u, r)

\* C28: in every state, a fast-upload check that is not turned down for the
\* name: where a row for the hash exists and its file_size fits in the
\* user's quota, raises that row's ref_count by one and creates exactly one
\* entry with the hash; where the size does not fit, is answered
\* QuotaExceeded and changes no row and creates no entry; where no row
\* exists, reports that, creates no row and no entry and changes no
\* ref_count.
C28_FastUploadCountsOnce ==
    \A u \in Users, h \in {Md5(OneByte), Md5(TwoBytes)}, folder_parts \in Paths,
       auto_rename \in BOOLEAN :
        LET r == check_fast_upload_result(u, h, FileName, Root, folder_parts, auto_rename)
            created == (DOMAIN r.s.fm) \ (DOMAIN file_meta)
        IN (r.s.ok /\ r.st # "NameConflict") =>
              IF h \notin DOMAIN file_store
              THEN r.st = "NoRecord" /\ NothingDone(u, r)
              ELSE IF quota_used[u] + file_store[h].file_size > QuotaTotal
              THEN r.st = "QuotaExceeded" /\ NothingDone(u, r)
              ELSE /\ r.st = "ok"
                   /\ r.s.fs = [file_store EXCEPT ![h].ref_count = @ + 1]
                   /\ Cardinality({i \in created : r.s.fm[i].file_hash = h}) = 1
                   /\ \A i \in DOMAIN file_meta : r.s.fm[i] = file_meta[i]

(***************************************************************************)
(* Volume selection.                                                       *)
(***************************************************************************)
\* the volumes that answer and have free bytes, under report free
Usable(free) == {Volumes[k] : k \in {j \in 1..Len(Volumes) : free[Volumes[j]] > 0}}

\* C29: in every state, whatever the volumes report when an upload brings
\* a content that has no file_store row and fits in the quota, the upload
\* fails for want of a volume exactly when no volume answers with free
\* bytes, and otherwise the file is stored on a volume that answers and has
\* free bytes, none of those having more free bytes than it.
C29_SelectsUsableVolumeWithMostFree ==
    \A free \in VolumeReports, u \in Users, content \in {OneByte, TwoBytes} :
        LET r == upload_file_result(u, FileName, Root, <<>>, TRUE, content, free)
            h == Md5(content)
            v == get_best_storage_path(free)
        IN (r.s.ok /\ h \notin DOMAIN file_store
                   /\ quota_used[u] + Len(content) <= QuotaTotal) =>
              /\ r.st = "NoVolumeAvailable" <=> Usable(free) = {}
              /\ r.st = "NoVolumeAvailable" <=> v = NoVolume
              /\ r.st # "NoVolumeAvailable" =>
                    /\ r.st = "ok"
                    /\ r.s.fs[h].real_path = v
                    /\ v \in Usable(free)
                    /\ \A x \in Usable(free) : free[v] >= free[x]

(***************************************************************************)
(* Names that are taken.                                                   *)
(***************************************************************************)
\* user u has an active entry named nm under p
NameTaken(u, p, nm) ==
    \E i \in DOMAIN file_meta : /\ file_meta[i].user_id = u
                                /\ file_meta[i].parent_id = p
                                /\ file_meta[i].file_name = nm
                                /\ ~file_meta[i].is_deleted

\* the requests of user u that would put an entry named nm under p: an
\* upload, a fast upload and a merge of the user's one-byte session, each
\* with or without auto_rename, and the creation of a folder
UploadOf(u, p, nm, auto_rename) ==
    upload_file_result(u, nm, p, <<>>, auto_rename, OneByte, <<1, 1>>)
FastUploadOf(u, p, nm, auto_rename) ==
    check_fast_upload_result(u, Md5(OneByte), nm, p, <<>>, auto_rename)
MergeOf(u, p, nm, auto_rename) ==
    merge_chunks_result(u, UploadId(u, Md5(OneByte), Root), nm, Md5(OneByte), p, <<>>,
                        auto_rename, <<1, 1>>)

\* result r of a request of user u is a refusal for the name that changed nothing
TurnedDownForName(u, r) ==
    /\ r.st = "NameConflict"
    /\ NothingDone(u, r)
    /\ r.fc = file_chunk
    /\ r.ct = chunk_tmp

\* result r is not a refusal for the name, and where the request went
\* through, its entry is under p with nm numbered by the least n >= 1 that
\* no active entry of u under p has
RenamedInstead(u, p, nm, r) ==
    /\ r.st # "NameConflict"
    /\ r.st = "ok" =>
          /\ r.node \in (DOMAIN r.s.fm) \ (DOMAIN file_meta)
          /\ r.s.fm[r.node].parent_id = p
          /\ ~NameTaken(u, p, r.s.fm[r.node].file_name)
          /\ \E n \in 1..(MaxId + 1) :
                /\ r.s.fm[r.node].file_name = nm \o <<" ", "(">> \o Str(n) \o <<")">>
                /\ \A m \in 1..(n - 1) : NameTaken(u, p, nm \o <<" ", "(">> \o Str(m) \o <<")">>)

\* C30: in every state, where a user has an active entry of some name under
\* some parent, an upload, a fast upload or a merge without auto_rename and
\* a folder creation under that name there are answered NameConflict and
\* change nothing; with auto_rename the upload, fast upload or merge is not
\* answered NameConflict, and when it goes through its entry has the name
\* with the least free number appended.
C30_TakenNameRefusedOrRenamed ==
    \A u \in Users, p \in Folders, nm \in {FileName, DirName} :
        NameTaken(u, p, nm) =>
            /\ TurnedDownForName(u, UploadOf(u, p, nm, FALSE))
            /\ TurnedDownForName(u, FastUploadOf(u, p, nm, FALSE))
            /\ TurnedDownForName(u, MergeOf(u, p, nm, FALSE))
            /\ TurnedDownForName(u, create_folder_result(u, nm, p))
            /\ UploadOf(u, p, nm, TRUE).s.ok => RenamedInstead(u, p, nm, UploadOf(u, p, nm, TRUE))
            /\ FastUploadOf(u, p, nm, TRUE).s.ok =>
                  RenamedInstead(u, p, nm, FastUploadOf(u, p, nm, TRUE))
            /\ MergeOf(u, p, nm, TRUE).s.ok => RenamedInstead(u, p, nm, MergeOf(u, p, nm, TRUE))

\* user 1 has entries a and a (1) at the root, and the session of user 1 is
\* ready to be merged: without auto_rename the merge of a is refused, with
\* it the merge goes through as a (2)
C30_MergedUnderSecondNumber ==
    /\ NameTaken(1, Root, FileName)
    /\ NameTaken(1, Root, FileName \o <<" ", "(", "1", ")">>)
    /\ MergeOf(1, Root, FileName, FALSE).st = "NameConflict"
    /\ MergeOf(1, Root, FileName, TRUE).st = "ok"
    /\ MergeOf(1, Root, FileName, TRUE).s.ok

(***************************************************************************)
(* Chunks uploaded again.                                                  *)
(***************************************************************************)
ChunkBodies == {<<1>>, <<2>>, <<1, 2>>}

\* C31: in every state, for every slot of the session and whatever bytes
\* come, an upload of that chunk leaves the slot marked uploaded with the
\* size of those bytes and the chunk file holding them, adds and removes no
\* slot and changes no other slot; and an upload of the same chunk after it
\* leaves what the later upload alone would have left.
C31_LaterChunkUploadWins ==
    \A i \in Slots(file_chunk, Session), d \in ChunkBodies :
        LET k == <<Session, i>>
            r == upload_chunk_result(1, Session, i, d)
        IN /\ r.st = "ok"
           /\ r.fc[k].is_uploaded
           /\ r.fc[k].chunk_size = Len(d)
           /\ r.ct[k] = d
           /\ DOMAIN r.fc = DOMAIN file_chunk
           /\ \A x \in (DOMAIN file_chunk) \ {k} : r.fc[x] = file_chunk[x]
           /\ \A x \in (DOMAIN chunk_tmp) \ {k} : x \in DOMAIN r.ct /\ r.ct[x] = chunk_tmp[x]
           /\ \A e \in ChunkBodies :
                 /\ mark_chunk_uploaded(r.fc, Session, i, Len(e))
                      = upload_chunk_result(1, Session, i, e).fc
                 /\ Put(r.ct, k, e) = upload_chunk_result(1, Session, i, e).ct

\* chunk 0 of a session of two has just been uploaded a second time, with
\* other bytes than it had; slot 1 is still pending
C31_ChunkSentTwice ==
    /\ last.op = "upload_chunk" /\ last.ret = {0}
    /\ Slots(file_chunk, Session) = {0, 1}
    /\ file_chunk[<<Session, 0>>].is_uploaded
    /\ ~file_chunk[<<Session, 1>>].is_uploaded
    /\ <<Session, 0>> \in DOMAIN chunk_tmp /\ chunk_tmp[<<Session, 0>>] = <<2>>
    /\ <<Session, 1>> \notin DOMAIN chunk_tmp

(***************************************************************************)
(* After a merge that went through.                                        *)
(***************************************************************************)
\* the chunk files on disk that carry the session's upload_id
ChunkFiles(ct, upload_id) == {k \in DOMAIN ct : k[1] = upload_id}

\* the answer a further merge of the session would get now
MergeAgain(folder_parts, free) ==
    merge_chunks_result(1, Session, FileName, Claimed, Root, folder_parts, TRUE, free)

\* what a further init of the session with n chunks would leave now
InitAgain(n) == init_chunk_upload_result(1, Claimed, Len(TwoBytes), FileName, Root, n, TRUE)

\* C32: in every state that a merge answered with success has just left,
\* the session has no slot and no chunk file, a further merge of the session
\* is answered not found, and a further init of the session that is accepted
\* starts with every slot pending.
C32_MergedSessionIsGone ==
    (last.op = "merge_chunks" /\ last.st = "ok") =>
        /\ Slots(file_chunk, Session) = {}
        /\ ChunkFiles(chunk_tmp, Session) = {}
        /\ \A folder_parts \in Paths, free \in FreeSpace :
              MergeAgain(folder_parts, free).st = "NotFound"
        /\ \A n \in 1..MaxChunks :
              InitAgain(n).st = "ok" =>
                 /\ Slots(InitAgain(n).fc, Session) = 0..(n - 1)
                 /\ \A i \in 0..(n - 1) : ~InitAgain(n).fc[<<Session, i>>].is_uploaded

(***************************************************************************)
(* What a delete touches.                                                  *)
(***************************************************************************)
\* C33: in every state and for every user and id, a delete that is answered
\* leaves every entry that was already deleted exactly as it was (its
\* deletion time included), leaves every entry that is neither the one named
\* nor below it as it was, and changes nothing but is_deleted and deleted_at
\* of the others.
C33_DeleteKeepsEarlierDeletionTime ==
    \A u \in Users, n \in DOMAIN file_meta :
        LET r == delete_file_result(u, n)
        IN (r.s.ok /\ r.st = "ok") =>
              /\ DOMAIN r.s.fm = DOMAIN file_meta
              /\ \A j \in DOMAIN file_meta :
                    /\ file_meta[j].is_deleted => r.s.fm[j] = file_meta[j]
                    /\ j \notin {n} \cup Descendants(file_meta, n) => r.s.fm[j] = file_meta[j]
                    /\ r.s.fm[j] = [file_meta[j] EXCEPT !.is_deleted = r.s.fm[j].is_deleted,
                                                        !.deleted_at = r.s.fm[j].deleted_at]

(***************************************************************************)
(* Slots and their chunk files.                                            *)
(***************************************************************************)
\* C34: in every reachable state every slot that is marked uploaded has its
\* chunk file on disk; in particular a merge that failed has left no slot
\* marked uploaded whose chunk file it removed.
C34_UploadedSlotHasItsData ==
    \A k \in DOMAIN file_chunk : file_chunk[k].is_uploaded => k \in DOMAIN chunk_tmp

(***************************************************************************)
(* The end of a copy.                                                      *)
(***************************************************************************)
\* C35: in every state, for every entry of user 1 and every folder of the
\* user as target (the entry itself and the folders below it included), a
\* copy for which the ids that are left suffice to clone the entry and
\* everything below it once comes to an end, and adds no more entries than
\* the entry and its descendants are.
C35_CopyEnds ==
    \A i \in DOMAIN file_meta : \A p \in Folders :
        LET S == {i} \cup Descendants(file_meta, i)
            r == batch_copy_within(MaxCopyId, 1, i, p)
        IN (file_meta[i].user_id = 1 /\ next_id + Cardinality(S) - 1 <= MaxCopyId) =>
              /\ r.s.ok
              /\ Cardinality((DOMAIN r.s.fm) \ (DOMAIN file_meta)) <= Cardinality(S)

(***************************************************************************)
(* A move to where the entry already is.                                   *)
(***************************************************************************)
\* C36: in every state and for every entry, a move of the entry by its owner
\* to the parent it already has, when it is answered, leaves every entry as
\* it was: the entry keeps its name and its parent.
C36_MoveToOwnParentKeepsName ==
    \A n \in DOMAIN file_meta :
        LET r == batch_move_result(file_meta[n].user_id, n, file_meta[n].parent_id)
        IN (r.s.ok /\ r.st = "ok") => r.s.fm = file_meta

(***************************************************************************)
(* Quota accounting.                                                       *)
(***************************************************************************)
\* the file entries of user u, deleted or not
FilesOf(u) == {i \in DOMAIN file_meta : file_meta[i].user_id = u /\ ~file_meta[i].is_folder}

\* C37: in every reachable state the quota_used of every user is the sum of
\* the sizes of the file entries the user has, in the trash or not, and is
\* not negative.
C37_QuotaIsSumOfOwnFiles ==
    \A u \in Users :
        /\ quota_used[u] >= 0
        /\ quota_used[u] = SizeOf(file_meta, file_store, FilesOf(u))

(***************************************************************************)
(* A permanent delete of what is not the caller's.                         *)
(***************************************************************************)
\* C38: in every state, for every user and every id that names no entry of
\* that user (no entry at all, or an entry of the other user), a permanent
\* delete of that id by the user leaves every entry, every file_store row,
\* every stored file and the quota_used of the user as they were.
C38_ForeignPermanentDeleteChangesNothing ==
    \A u \in Users, i \in Ids :
        LET r == permanent_delete_file_result(u, i)
        IN (Found(i, u) = "NotFound" /\ r.s.ok) => NothingDone(u, r)

(***************************************************************************)
(* What the purge may take.                                                *)
(***************************************************************************)
\* C39: in every state and for every user, the purge of the user's expired
\* trash, when it ends, destroys only entries that were deleted more than
\* TrashDays ago: no active entry and no entry deleted more recently goes,
\* whether or not it lies below an expired folder.
C39_PurgeTakesOnlyExpired ==
    \A u \in Users :
        LET s == clean_expired_trash(Db, u, now)
        IN s.ok => (DOMAIN file_meta) \ (DOMAIN s.fm) \subseteq Expired(file_meta, u, now)

(***************************************************************************)
(* SpecPurgeRace: user 2 holds the one entry of the content TwoBytes and   *)
(* removes it for good while user 1 uploads the same content.  Worker 1    *)
(* runs upload_file for user 1 step by step, worker 2 runs                 *)
(* permanent_delete_file for user 2 step by step; a step is one query, one *)
(* commit or one file operation.                                           *)
(***************************************************************************)
\* upload_file of user 2, run to completion before the delete begins
PurgeSeed ==
    /\ pc[2] = "idle"
    /\ \A i \in RefNodes(Claimed) : file_meta[i].user_id # 2
    /\ \E free \in FreeSpace :
          Commit(2, upload_file_result(2, FileName, Root, <<>>, TRUE, TwoBytes, free))
    /\ UNCHANGED last

\* files.py:642-656: the row is loaded by id and its size taken
PdBegin(w) ==
    /\ pc[w] = "idle"
    /\ \E id \in DOMAIN file_meta :
          /\ file_meta[id].user_id = w
          /\ ~file_meta[id].is_folder
          /\ Goto(w, "pd_query",
                  [op |-> "permanent_delete_file", user |-> w, id |-> id,
                   file_hash |-> file_meta[id].file_hash,
                   file_size |-> file_size(file_meta, file_store, id),
                   real_path |-> NoVolume, drop_store |-> FALSE, st |-> "running"])
    /\ UNCHANGED <<file_meta, next_id, file_store, disk, file_chunk, chunk_tmp,
                   quota_used, now, last>>

\* crud_file.py:301-303 and 309-310: the row is read again with its file_store
PdQuery(w) ==
    LET l == loc[w]
    IN /\ pc[w] = "pd_query"
       /\ IF l.id \notin DOMAIN file_meta \/ file_meta[l.id].user_id # l.user
          THEN Goto(w, "pd_quota", l)
          ELSE IF l.file_hash \in DOMAIN file_store
          THEN Goto(w, "pd_decrement", l)
          ELSE Goto(w, "pd_delete", l)
       /\ UNCHANGED <<file_meta, next_id, file_store, disk, file_chunk, chunk_tmp,
                      quota_used, now, last>>

\* crud_file.py:311 and 199-206: the UPDATE is committed
PdDecrement(w) ==
    /\ pc[w] = "pd_decrement"
    /\ file_store' = decrement_ref_count(file_store, loc[w].file_hash)
    /\ Goto(w, "pd_reread", loc[w])
    /\ UNCHANGED <<file_meta, next_id, disk, file_chunk, chunk_tmp, quota_used, now, last>>

\* crud_file.py:207 and 312: the row is read back and its count looked at
PdReread(w) ==
    LET l == loc[w]
    IN /\ pc[w] = "pd_reread"
       /\ IF l.file_hash \in DOMAIN file_store /\ file_store[l.file_hash].ref_count <= 0
          THEN Goto(w, "pd_unlink", [l EXCEPT !.real_path = file_store[l.file_hash].real_path])
          ELSE Goto(w, "pd_delete", l)
       /\ UNCHANGED <<file_meta, next_id, file_store, disk, file_chunk, chunk_tmp,
                      quota_used, now, last>>

\* crud_file.py:313-315: the stored file is removed and the row marked for
\* deletion in the session
PdUnlink(w) ==
    /\ pc[w] = "pd_unlink"
    /\ disk' = Drop(disk, {<<loc[w].real_path, loc[w].file_hash>>})
    /\ Goto(w, "pd_delete", [loc[w] EXCEPT !.drop_store = TRUE])
    /\ UNCHANGED <<file_meta, next_id, file_store, file_chunk, chunk_tmp, quota_used,
                   now, last>>

\* crud_file.py:317-318: the commit deletes the file_meta row and, when it was
\* marked, the file_store row of that hash, whatever its count is by now
PdDelete(w) ==
    /\ pc[w] = "pd_delete"
    /\ file_meta' = Drop(file_meta, {loc[w].id})
    /\ file_store' = IF loc[w].drop_store
                     THEN Drop(file_store, {loc[w].file_hash})
                     ELSE file_store
    /\ Goto(w, "pd_quota", loc[w])
    /\ UNCHANGED <<next_id, disk, file_chunk, chunk_tmp, quota_used, now, last>>

\* files.py:660; crud_user.py:41-46
PdQuota(w) ==
    /\ pc[w] = "pd_quota"
    /\ quota_used' = [quota_used EXCEPT ![loc[w].user] = @ - loc[w].file_size]
    /\ Answer(w, "ok", loc[w])
    /\ UNCHANGED <<file_meta, next_id, file_store, disk, file_chunk, chunk_tmp, now, last>>

NextPurgeRace ==
    \/ PurgeSeed
    \/ UfBegin(1)
    \/ UfLookup(1)
    \/ Bump(1)
    \/ Select(1)
    \/ UfExists(1)
    \/ UfMove(1)
    \/ UfDrop(1)
    \/ CfsCheck(1)
    \/ CfsBump(1)
    \/ CfsInsert(1)
    \/ CfsRollback(1)
    \/ Meta(1)
    \/ Quota(1)
    \/ PdBegin(2)
    \/ PdQuery(2)
    \/ PdDecrement(2)
    \/ PdReread(2)
    \/ PdUnlink(2)
    \/ PdDelete(2)
    \/ PdQuota(2)

SpecPurgeRace == Init /\ [][NextPurgeRace]_vars

\* no request is under way
AtRest == \A w \in Workers : pc[w] \in {"idle", "done"}

\* C40: however the permanent delete of the last entry of a content and an
\* upload of the same content overlap, once both have been answered every
\* hash a file entry names has its file_store row and its stored file, and
\* every file_store row counts exactly the file entries that name its hash.
C40_PurgeAndUploadAgree ==
    AtRest =>
        \A h \in KnownHashes :
            /\ RefNodes(h) # {} => Stored(h)
            /\ h \in DOMAIN file_store => file_store[h].ref_count = Cardinality(RefNodes(h))

====
